---- MODULE Spec2Model ----
(***************************************************************************)
(* State-machine model of the floor-tile registry and batched renderer     *)
(* (class CubeFloorRenderer): the Tile Registry (cubeRegistry), the        *)
(* Exclusion Set (excludedCoordinates), the surface -> container map       *)
(* (sceneGroups), the containers' drawables and the surfaces' children.    *)
(***************************************************************************)
EXTENDS Integers, Sequences, FiniteSets, TLC

(***************************************************************************)
(* Bounds of the model.                                                    *)
(***************************************************************************)
\* longest coordinate batch passed to one call
MaxBatch == 2

(***************************************************************************)
(* Inputs.                                                                 *)
(***************************************************************************)
\* grid coordinates the callers pass (CubePosition values)
Coords == { [x |-> 0, y |-> 0], [x |-> -1, y |-> 1] }
\* colors the callers pass
Colors == { 255, 65280 }
\* classifications the callers may pass
Types == { "room", "hallway" }
\* render surfaces (THREE.Scene objects, by identity)
Scenes == { "sceneA", "sceneB" }
\* cubeSize option values (the default comes from CubeConfig.getCubeSize())
CubeSizes == { 1, 2 }
\* yOffset option values (default 0)
YOffsets == { 0 }

\* the batches of at most MaxBatch coordinates of a set, duplicates included
BatchesOver(coords) == UNION { [1..n -> coords] : n \in 0..MaxBatch }

Batches == BatchesOver(Coords)

(***************************************************************************)
(* Program constants.                                                      *)
(***************************************************************************)
\* 0x800080, the purple written on every overlap
OverlapColor == 8388736

VARIABLES
  cubeRegistry,         \* Map<string, CubeInfo>, as its entries in insertion order
  excludedCoordinates,  \* Set<string>
  sceneGroups,          \* Map<Scene, Group>: the group of each scene, NoGroup if none
  groupChildren,        \* the children (meshes) of every group, in order
  sceneChildren,        \* per scene, the groups attached to it (scene.children)
  lastCall,             \* the last call made: its arguments, its result, whether
                        \* it threw, and the scenes dispose removed a group from
  leaked,               \* where a ledger of the graphics resources is kept: the
                        \* kinds of resource of which renderAllCubes created one
                        \* that no group holds any more and nobody disposed
  adminApps,            \* admin.apps.length of the Firebase Admin SDK
  requests,             \* the requests of GET /verify: header, position in
                        \* authenticateToken, req.user, next() calls, responses
  admins,               \* the documents of the admins collection, in insertion order
  runs,                 \* the runs of the add-admin script: email, position in
                        \* addAdminUser, the document findOne returned
  spriteAnimations,     \* PlayerManager.spriteAnimations: per player its state
  spriteMaterialMap,    \* per player, the frame of the texture in material.map
  now                   \* Date.now(), in units of ClockUnit milliseconds

\* the floor renderer (CubeFloorRenderer)
rendererVars == << cubeRegistry, excludedCoordinates, sceneGroups, groupChildren,
                   sceneChildren, lastCall, leaked >>

\* the authentication middleware and the /verify route
authVars == << adminApps, requests >>

\* the add-admin script and its database
scriptVars == << admins, runs >>

\* the sprite animation of PlayerManager
spriteVars == << spriteAnimations, spriteMaterialMap, now >>

\* what a call of the floor renderer cannot touch
elsewhere == << authVars, scriptVars, spriteVars >>

vars == << rendererVars, elsewhere >>

\* a value that may be missing is a sequence of length 0 (undefined, null)
\* or 1 (the value)
Undefined == << >>

Some(v) == << v >>

(***************************************************************************)
(* getCubeKey: the template string `${x},${y}`.                            *)
(***************************************************************************)
\* a key without the separator between the two numbers
getCubeKey_NoSeparator(x, y) == ToString(x) \o ToString(y)

getCubeKey(x, y) == ToString(x) \o "," \o ToString(y)

(***************************************************************************)
(* JavaScript Map semantics over a sequence of << key, value >> entries:   *)
(* set on a new key appends, set on an existing key replaces in place,     *)
(* delete removes the entry and forEach visits in insertion order.         *)
(***************************************************************************)
MapKeys(m) == { m[i].key : i \in 1..Len(m) }

MapHas(m, k) == k \in MapKeys(m)

MapIndex(m, k) == CHOOSE i \in 1..Len(m) : m[i].key = k

MapGet(m, k) == m[MapIndex(m, k)].value

MapSet(m, k, v) ==
  IF MapHas(m, k)
    THEN [m EXCEPT ![MapIndex(m, k)] = [key |-> k, value |-> v]]
    ELSE Append(m, [key |-> k, value |-> v])

MapDelete(m, k) == SelectSeq(m, LAMBDA e : e.key # k)

(***************************************************************************)
(* Groups are objects: a group is identified by a number, and NoGroup      *)
(* stands for `undefined` (no entry in sceneGroups).  A group that         *)
(* sceneGroups no longer references is unreachable from the class, and its *)
(* number is free for the next `new THREE.Group()`; at most one group per  *)
(* scene is referenced at a time.                                          *)
(***************************************************************************)
NoGroup == 0

GroupIds == 1..Cardinality(Scenes)

\* the object `new THREE.Group()` returns: one that no scene is mapped to
NewGroup(groups) ==
  CHOOSE g \in GroupIds :
    /\ \A s \in Scenes : groups[s] # g
    /\ \A h \in GroupIds : (\A s \in Scenes : groups[s] # h) => g <= h

\* the arguments of a call of getAreaCoordinates or getPathCoordinates: four
\* integers and the unit they count ("one": the numbers themselves, "half":
\* halves, "huge": multiples of 2^600), and the width
NoArgs ==
  [fn |-> "none", unit |-> "one", startX |-> 0, startY |-> 0,
   endX |-> 0, endY |-> 0, width |-> 1]

NoCall(op) ==
  [op |-> op, args |-> NoArgs, coords |-> << >>, scene |-> "none",
   options |-> [cubeSize |-> 0, yOffset |-> 0],
   retGroup |-> NoGroup, retCoords |-> << >>, threw |-> FALSE,
   removed |-> {}, disposed |-> {}, deleted |-> << >>,
   before |-> [records |-> 0, excluded |-> {}]]

\* what a clearing call found: the number of records and the excluded keys
Found(reg, excl) == [records |-> Len(reg), excluded |-> excl]

(***************************************************************************)
(* clearRegistry                                                           *)
(***************************************************************************)
\* a clearRegistry that leaves the excluded keys in place
clearRegistry_KeepsExclusions ==
  /\ cubeRegistry' = << >>
  /\ lastCall' = [NoCall("clearRegistry") EXCEPT
                    !.before = Found(cubeRegistry, excludedCoordinates)]
  /\ UNCHANGED << excludedCoordinates, sceneGroups, groupChildren,
                  sceneChildren >>
  /\ UNCHANGED << leaked, elsewhere >>

\* a clearRegistry that also empties the group of every scene
clearRegistry_EmptiesGroups ==
  /\ cubeRegistry' = << >>
  /\ excludedCoordinates' = {}
  /\ groupChildren' = [g \in GroupIds |-> << >>]
  /\ lastCall' = [NoCall("clearRegistry") EXCEPT
                    !.before = Found(cubeRegistry, excludedCoordinates)]
  /\ UNCHANGED << sceneGroups, sceneChildren >>
  /\ UNCHANGED << leaked, elsewhere >>

clearRegistry ==
  /\ cubeRegistry' = << >>
  /\ excludedCoordinates' = {}
  /\ lastCall' = [NoCall("clearRegistry") EXCEPT
                    !.before = Found(cubeRegistry, excludedCoordinates)]
  /\ UNCHANGED << sceneGroups, groupChildren, sceneChildren >>
  /\ UNCHANGED << leaked, elsewhere >>

(***************************************************************************)
(* setExcludedCoordinates: clear, then add the key of every coordinate.    *)
(***************************************************************************)
ExcludedKeysOf(coordinates) ==
  { getCubeKey(coordinates[i].x, coordinates[i].y) : i \in 1..Len(coordinates) }

\* a setExcludedCoordinates that also drops the records of the excluded keys
setExcludedCoordinates_DropsRecords(coordinates) ==
  /\ excludedCoordinates' = ExcludedKeysOf(coordinates)
  /\ cubeRegistry' =
       SelectSeq(cubeRegistry, LAMBDA e : e.key \notin ExcludedKeysOf(coordinates))
  /\ lastCall' = [NoCall("setExcludedCoordinates") EXCEPT !.coords = coordinates]
  /\ UNCHANGED << sceneGroups, groupChildren, sceneChildren >>
  /\ UNCHANGED << leaked, elsewhere >>

\* a setExcludedCoordinates that adds to the excluded keys without clearing
setExcludedCoordinates_Merges(coordinates) ==
  /\ excludedCoordinates' = excludedCoordinates \cup ExcludedKeysOf(coordinates)
  /\ lastCall' = [NoCall("setExcludedCoordinates") EXCEPT !.coords = coordinates]
  /\ UNCHANGED << cubeRegistry, sceneGroups, groupChildren, sceneChildren >>
  /\ UNCHANGED << leaked, elsewhere >>

setExcludedCoordinates(coordinates) ==
  /\ excludedCoordinates' = ExcludedKeysOf(coordinates)
  /\ lastCall' = [NoCall("setExcludedCoordinates") EXCEPT !.coords = coordinates]
  /\ UNCHANGED << cubeRegistry, sceneGroups, groupChildren, sceneChildren >>
  /\ UNCHANGED << leaked, elsewhere >>

(***************************************************************************)
(* unregisterCoordinates: delete the key of every coordinate.              *)
(***************************************************************************)
\* an unregisterCoordinates that drops every record once it is given a key
UnregisterFrom_All(reg, coordinates) ==
  IF coordinates = << >> THEN reg ELSE << >>

\* an unregisterCoordinates that deletes the key of its first coordinate only
UnregisterFrom_HeadOnly(reg, coordinates) ==
  IF coordinates = << >> THEN reg
  ELSE MapDelete(reg, getCubeKey(Head(coordinates).x, Head(coordinates).y))

RECURSIVE UnregisterFrom(_, _)
UnregisterFrom(reg, coordinates) ==
  IF coordinates = << >> THEN reg
  ELSE UnregisterFrom(
         MapDelete(reg, getCubeKey(Head(coordinates).x, Head(coordinates).y)),
         Tail(coordinates))

\* the result of cubeRegistry.delete(key) for each coordinate, in order
RECURSIVE DeletedFrom(_, _)
DeletedFrom(reg, coordinates) ==
  IF coordinates = << >> THEN << >>
  ELSE LET key == getCubeKey(Head(coordinates).x, Head(coordinates).y) IN
       << MapHas(reg, key) >>
         \o DeletedFrom(MapDelete(reg, key), Tail(coordinates))

unregisterCoordinates(coordinates) ==
  /\ cubeRegistry' = UnregisterFrom(cubeRegistry, coordinates)
  /\ lastCall' = [NoCall("unregisterCoordinates") EXCEPT
                    !.coords = coordinates,
                    !.deleted = DeletedFrom(cubeRegistry, coordinates)]
  /\ UNCHANGED << excludedCoordinates, sceneGroups, groupChildren, sceneChildren >>
  /\ UNCHANGED << leaked, elsewhere >>

(***************************************************************************)
(* getAllCoordinates: the position of every entry, in iteration order.     *)
(***************************************************************************)
\* a getAllCoordinates that leaves out the overlap records
AllCoordinatesOf_SkipsOverlap(reg) ==
  LET kept == SelectSeq(reg, LAMBDA e : e.value.type # "overlap")
  IN  [i \in 1..Len(kept) |-> kept[i].value.position]

AllCoordinatesOf(reg) == [i \in 1..Len(reg) |-> reg[i].value.position]

getAllCoordinates ==
  /\ lastCall' = [NoCall("getAllCoordinates") EXCEPT
                    !.retCoords = AllCoordinatesOf(cubeRegistry)]
  /\ UNCHANGED << cubeRegistry, excludedCoordinates, sceneGroups, groupChildren,
                  sceneChildren >>
  /\ UNCHANGED << leaked, elsewhere >>

(***************************************************************************)
(* registerCubes: the body of the forEach, then the whole batch.           *)
(***************************************************************************)
OverlapInfo(coord) ==
  [position |-> coord, color |-> OverlapColor, type |-> "overlap"]

\* a first registration that stores the overlap color instead of the given one
FirstInfo_OverlapColor(coord, color, type) ==
  [position |-> coord, color |-> OverlapColor, type |-> type]

FirstInfo(coord, color, type) ==
  [position |-> coord, color |-> color, type |-> type]

\* a registerCubes that overwrites an occupied key with the new registration
RegisterCoord_LastWins(reg, excl, coord, color, type) ==
  LET key == getCubeKey(coord.x, coord.y) IN
  IF key \in excl THEN reg
  ELSE MapSet(reg, key, FirstInfo(coord, color, type))

\* a registerCubes without the exclusion check
RegisterCoord_NoExclusion(reg, excl, coord, color, type) ==
  LET key == getCubeKey(coord.x, coord.y) IN
  IF MapHas(reg, key)
    THEN MapSet(reg, key, OverlapInfo(coord))
    ELSE MapSet(reg, key, FirstInfo(coord, color, type))

RegisterCoord(reg, excl, coord, color, type) ==
  LET key == getCubeKey(coord.x, coord.y) IN
  IF key \in excl THEN reg
  ELSE IF MapHas(reg, key)
    THEN MapSet(reg, key, OverlapInfo(coord))
    ELSE MapSet(reg, key, FirstInfo(coord, color, type))

\* a registerCubes that gives up at the first occupied coordinate, leaving
\* the rest of the batch unregistered
RECURSIVE RegisterFrom_StopsAtOccupied(_, _, _, _, _)
RegisterFrom_StopsAtOccupied(reg, excl, coordinates, color, type) ==
  IF coordinates = << >> THEN reg
  ELSE IF MapHas(reg, getCubeKey(Head(coordinates).x, Head(coordinates).y))
    THEN RegisterCoord(reg, excl, Head(coordinates), color, type)
  ELSE RegisterFrom_StopsAtOccupied(
         RegisterCoord(reg, excl, Head(coordinates), color, type),
         excl, Tail(coordinates), color, type)

RECURSIVE RegisterFrom(_, _, _, _, _)
RegisterFrom(reg, excl, coordinates, color, type) ==
  IF coordinates = << >> THEN reg
  ELSE RegisterFrom(RegisterCoord(reg, excl, Head(coordinates), color, type),
                    excl, Tail(coordinates), color, type)

registerCubes(coordinates, color, type) ==
  /\ cubeRegistry' =
       RegisterFrom(cubeRegistry, excludedCoordinates, coordinates, color, type)
  /\ lastCall' = [NoCall("registerCubes") EXCEPT !.coords = coordinates]
  /\ UNCHANGED << excludedCoordinates, sceneGroups, groupChildren, sceneChildren >>
  /\ UNCHANGED << leaked, elsewhere >>

(***************************************************************************)
(* renderAllCubes.  A mesh keeps what the code sets on it: its name, the   *)
(* tag handed to TextureManager.createMaterialWithTexture, its position    *)
(* and its shadow flags.  Positions are in half units (twice the world     *)
(* value), so that cubeSize / 2 stays exact for an odd cubeSize.           *)
(***************************************************************************)
\* a texture choice that treats an overlap as a room
CubeTypeOf_OverlapAsRoom(type) ==
  IF type = "hallway" THEN "hallway-floor" ELSE "room-floor"

CubeTypeOf(type) ==
  IF type = "overlap" THEN "hallway-floor"
  ELSE IF type = "hallway" THEN "hallway-floor"
  ELSE "room-floor"

\* a mesh placed with the grid y on the world y axis
MeshOf_GridYIsUp(cubeInfo, cubeSize, yOffset) ==
  [name |-> "FloorCube_" \o cubeInfo.type \o "_" \o ToString(cubeInfo.position.x)
              \o "_" \o ToString(cubeInfo.position.y),
   cubeType |-> CubeTypeOf(cubeInfo.type),
   position |-> [x2 |-> 2 * (cubeInfo.position.x * cubeSize),
                 y2 |-> 2 * (cubeInfo.position.y * cubeSize),
                 z2 |-> 2 * yOffset + cubeSize],
   castShadow |-> TRUE,
   receiveShadow |-> TRUE]

MeshOf(cubeInfo, cubeSize, yOffset) ==
  [name |-> "FloorCube_" \o cubeInfo.type \o "_" \o ToString(cubeInfo.position.x)
              \o "_" \o ToString(cubeInfo.position.y),
   cubeType |-> CubeTypeOf(cubeInfo.type),
   position |-> [x2 |-> 2 * (cubeInfo.position.x * cubeSize),
                 y2 |-> 2 * yOffset + cubeSize,
                 z2 |-> 2 * (cubeInfo.position.y * cubeSize)],
   castShadow |-> TRUE,
   receiveShadow |-> TRUE]

\* a renderAllCubes without the exclusion check
RenderedEntries_All(reg, excl) == reg

\* the entries the forEach does not skip
RenderedEntries(reg, excl) == SelectSeq(reg, LAMBDA e : e.key \notin excl)

\* the meshes a complete pass adds to the group, in order
RenderedMeshes(reg, excl, cubeSize, yOffset) ==
  LET es == RenderedEntries(reg, excl) IN
  [i \in 1..Len(es) |-> MeshOf(es[i].value, cubeSize, yOffset)]

\* the kinds of resource a mesh holds: the box geometry of the call that
\* made it and its own material
ResourceKinds == {"geometry", "material"}

\* The resources one call of renderAllCubes puts out of reach.  Line 155:
\* clear() takes the meshes `old` out of the group and disposes nothing, so
\* their geometry and their materials are held by no group any more.  Line
\* 159: the geometry of this call is held by the meshes of this call only,
\* by nothing when the call makes no mesh.
LeakedBy(old, meshes) ==
  (IF Len(old) > 0 THEN ResourceKinds ELSE {})
    \cup (IF Len(meshes) = 0 THEN {"geometry"} ELSE {})

\* the ledger after such a call, where one is kept
LeakedAfter(ledger, old, meshes) ==
  IF ledger = Undefined THEN Undefined
  ELSE Some(ledger[1] \cup LeakedBy(old, meshes))

\* a renderAllCubes that does not clear the group before it adds the meshes
RenderInto_NoClear(scene, meshes) ==
  LET isNew == sceneGroups[scene] = NoGroup
      sceneGroup == IF isNew THEN NewGroup(sceneGroups) ELSE sceneGroups[scene]
  IN /\ sceneGroups' = [sceneGroups EXCEPT ![scene] = sceneGroup]
     /\ sceneChildren' =
          IF isNew THEN [sceneChildren EXCEPT ![scene] = @ \cup {sceneGroup}]
          ELSE sceneChildren
     /\ groupChildren' =
          [groupChildren EXCEPT ![sceneGroup] =
             IF Len(@) < 4 THEN @ \o meshes ELSE @]
     /\ leaked' = LeakedAfter(leaked, << >>, meshes)

\* a renderAllCubes that creates and attaches a group on every call
RenderInto_AlwaysNew(scene, meshes) ==
  LET free == { g \in GroupIds : \A s \in Scenes : sceneGroups[s] # g }
      sceneGroup == IF free = {} THEN sceneGroups[scene] ELSE NewGroup(sceneGroups)
  IN /\ sceneGroups' = [sceneGroups EXCEPT ![scene] = sceneGroup]
     /\ sceneChildren' = [sceneChildren EXCEPT ![scene] = @ \cup {sceneGroup}]
     /\ groupChildren' = [groupChildren EXCEPT ![sceneGroup] = meshes]
     /\ leaked' = LeakedAfter(leaked, groupChildren[sceneGroup], meshes)

\* lines 146-156: get or create the group of the scene, attach a new one, clear it;
\* then the group holds `meshes`
RenderInto(scene, meshes) ==
  LET isNew == sceneGroups[scene] = NoGroup
      sceneGroup == IF isNew THEN NewGroup(sceneGroups) ELSE sceneGroups[scene]
  IN /\ sceneGroups' = [sceneGroups EXCEPT ![scene] = sceneGroup]
     /\ sceneChildren' =
          IF isNew THEN [sceneChildren EXCEPT ![scene] = @ \cup {sceneGroup}]
          ELSE sceneChildren
     /\ groupChildren' = [groupChildren EXCEPT ![sceneGroup] = meshes]
     /\ leaked' = LeakedAfter(leaked, groupChildren[sceneGroup], meshes)

\* a renderAllCubes that drops from the registry the records it skips
renderAllCubes_DropsExcluded(scene, cubeSize, yOffset) ==
  /\ RenderInto(scene,
       RenderedMeshes(cubeRegistry, excludedCoordinates, cubeSize, yOffset))
  /\ lastCall' = [NoCall("renderAllCubes") EXCEPT
                    !.scene = scene,
                    !.options = [cubeSize |-> cubeSize, yOffset |-> yOffset],
                    !.retGroup = sceneGroups'[scene]]
  /\ cubeRegistry' = RenderedEntries(cubeRegistry, excludedCoordinates)
  /\ UNCHANGED excludedCoordinates
  /\ UNCHANGED elsewhere

\* the texture provider answers every request: the pass completes and the
\* group is returned
renderAllCubes(scene, cubeSize, yOffset) ==
  /\ RenderInto(scene,
       RenderedMeshes(cubeRegistry, excludedCoordinates, cubeSize, yOffset))
  /\ lastCall' = [NoCall("renderAllCubes") EXCEPT
                    !.scene = scene,
                    !.options = [cubeSize |-> cubeSize, yOffset |-> yOffset],
                    !.retGroup = sceneGroups'[scene]]
  /\ UNCHANGED << cubeRegistry, excludedCoordinates >>
  /\ UNCHANGED elsewhere

\* the texture provider throws on its n-th request of the pass: the exception
\* leaves renderAllCubes with the first n - 1 meshes in the group
\* a renderAllCubes that catches the exception of the texture provider and
\* returns the group with the meshes made so far
renderAllCubesThrows_Swallowed(scene, cubeSize, yOffset, n) ==
  /\ n \in 1..Len(RenderedEntries(cubeRegistry, excludedCoordinates))
  /\ RenderInto(scene,
       SubSeq(RenderedMeshes(cubeRegistry, excludedCoordinates, cubeSize, yOffset),
              1, n - 1))
  /\ lastCall' = [NoCall("renderAllCubes") EXCEPT
                    !.scene = scene,
                    !.options = [cubeSize |-> cubeSize, yOffset |-> yOffset],
                    !.retGroup = sceneGroups'[scene]]
  /\ UNCHANGED << cubeRegistry, excludedCoordinates >>
  /\ UNCHANGED elsewhere

renderAllCubesThrows(scene, cubeSize, yOffset, n) ==
  /\ n \in 1..Len(RenderedEntries(cubeRegistry, excludedCoordinates))
  /\ RenderInto(scene,
       SubSeq(RenderedMeshes(cubeRegistry, excludedCoordinates, cubeSize, yOffset),
              1, n - 1))
  /\ lastCall' = [NoCall("renderAllCubes") EXCEPT
                    !.scene = scene,
                    !.options = [cubeSize |-> cubeSize, yOffset |-> yOffset],
                    !.threw = TRUE]
  /\ UNCHANGED << cubeRegistry, excludedCoordinates >>
  /\ UNCHANGED elsewhere

(***************************************************************************)
(* dispose: clear the registry and the exclusions, remove every tracked    *)
(* group from its scene, forget the groups.  A group that sceneGroups no    *)
(* longer references is unreachable from the class: groupChildren keeps    *)
(* the children of the tracked groups only.                                *)
(***************************************************************************)
\* a dispose that removes no group from its scene
DetachAll_None(children, groups) == children

DetachAll(children, groups) ==
  [s \in Scenes |-> children[s] \ {groups[s]}]

\* The dispose() calls of lines 304-315: group.traverse visits every child
\* of every group of sceneGroups; each child is a Mesh, whose geometry and
\* whose material are disposed.  A resource is named by the scene, the
\* index of the mesh in the group of that scene, and its kind.

\* a dispose that walks the group of one scene only
DisposedBy_OneScene(groups, children) ==
  LET tracked == { s \in Scenes : groups[s] # NoGroup }
      only == IF tracked = {} THEN {} ELSE {CHOOSE s \in tracked : TRUE}
  IN  UNION { { [scene |-> s, index |-> j, kind |-> k] :
                  j \in 1..Len(children[groups[s]]), k \in ResourceKinds } :
              s \in only }

DisposedBy(groups, children) ==
  UNION { { [scene |-> s, index |-> j, kind |-> k] :
              j \in 1..Len(children[groups[s]]), k \in ResourceKinds } :
          s \in { t \in Scenes : groups[t] # NoGroup } }

\* a dispose that fails when no scene has a group
dispose_RequiresGroup ==
  /\ cubeRegistry' = << >>
  /\ excludedCoordinates' = {}
  /\ sceneChildren' = DetachAll(sceneChildren, sceneGroups)
  /\ sceneGroups' = [s \in Scenes |-> NoGroup]
  /\ groupChildren' = [g \in GroupIds |-> << >>]
  /\ lastCall' = [NoCall("dispose") EXCEPT
                    !.before = Found(cubeRegistry, excludedCoordinates),
                    !.removed = { s \in Scenes : sceneGroups[s] # NoGroup },
                    !.disposed = DisposedBy(sceneGroups, groupChildren),
                    !.threw = \A s \in Scenes : sceneGroups[s] = NoGroup]
  /\ UNCHANGED << leaked, elsewhere >>

dispose ==
  /\ cubeRegistry' = << >>
  /\ excludedCoordinates' = {}
  /\ sceneChildren' = DetachAll(sceneChildren, sceneGroups)
  /\ sceneGroups' = [s \in Scenes |-> NoGroup]
  /\ groupChildren' = [g \in GroupIds |-> << >>]
  /\ lastCall' = [NoCall("dispose") EXCEPT
                    !.before = Found(cubeRegistry, excludedCoordinates),
                    !.removed = { s \in Scenes : sceneGroups[s] # NoGroup },
                    !.disposed = DisposedBy(sceneGroups, groupChildren)]
  /\ UNCHANGED << leaked, elsewhere >>

(***************************************************************************)
(* getAreaCoordinates: x from startX while x <= endX, and for each x, y    *)
(* from startY while y <= endY.                                            *)
(***************************************************************************)
\* the inner loop, from y on
RECURSIVE AreaColumn(_, _, _)
AreaColumn(x, y, endY) ==
  IF y <= endY
    THEN << [x |-> x, y |-> y] >> \o AreaColumn(x, y + 1, endY)
    ELSE << >>

\* an area whose bounds are put in ascending order first
RECURSIVE AreaCoordinatesOf_Normalized(_, _, _, _)
AreaCoordinatesOf_Normalized(startX, startY, endX, endY) ==
  IF startX > endX
    THEN AreaCoordinatesOf_Normalized(endX, startY, startX, endY)
  ELSE IF startY > endY
    THEN AreaCoordinatesOf_Normalized(startX, endY, endX, startY)
  ELSE IF startX = endX THEN AreaColumn(startX, startY, endY)
  ELSE AreaColumn(startX, startY, endY)
         \o AreaCoordinatesOf_Normalized(startX + 1, startY, endX, endY)

\* the outer loop, from startX on
RECURSIVE AreaCoordinatesOf(_, _, _, _)
AreaCoordinatesOf(startX, startY, endX, endY) ==
  IF startX <= endX
    THEN AreaColumn(startX, startY, endY)
           \o AreaCoordinatesOf(startX + 1, startY, endX, endY)
    ELSE << >>

getAreaCoordinates ==
  /\ lastCall.op = "init"
  /\ lastCall.args.fn = "getAreaCoordinates"
  /\ lastCall' = [NoCall("getAreaCoordinates") EXCEPT
                    !.args = lastCall.args,
                    !.retCoords = AreaCoordinatesOf(
                                    lastCall.args.startX, lastCall.args.startY,
                                    lastCall.args.endX, lastCall.args.endY)]
  /\ UNCHANGED << cubeRegistry, excludedCoordinates, sceneGroups, groupChildren,
                  sceneChildren >>
  /\ UNCHANGED << leaked, elsewhere >>

(***************************************************************************)
(* getPathCoordinates.  The source computes in double precision; here the  *)
(* same values are computed exactly, on integers: an argument is an        *)
(* integer counted in its unit, dx and dy are counted in the same unit, q  *)
(* is dx * dx + dy * dy, the length is sqrt(q) in that unit, and a point   *)
(* before rounding is a / (den * n) + b / sqrt(q), with den the            *)
(* denominator of the unit and n the ceiling of the length.                *)
(***************************************************************************)
UnitDen(unit) == IF unit = "half" THEN 2 ELSE 1

SquaredLength(dx, dy) == dx * dx + dy * dy

\* dx * dx + dy * dy is Infinity: dx or dy is a non-zero multiple of 2^600,
\* and its square is above the largest double (below 2^1024)
LengthIsInfinite(unit, dx, dy) ==
  unit = "huge" /\ SquaredLength(dx, dy) # 0

\* Math.ceil(length), for length = sqrt(q) / den and q > 0
CeilLength(q, den) ==
  CHOOSE n \in 0..q :
    /\ (den * n) * (den * n) >= q
    /\ \A m \in 0..(n - 1) : (den * m) * (den * m) < q

\* p >= r * sqrt(q), for q > 0
GeqRoot(p, r, q) ==
  IF r <= 0 /\ p >= 0 THEN TRUE
  ELSE IF r > 0 /\ p < 0 THEN FALSE
  ELSE IF p >= 0 THEN p * p >= r * r * q
  ELSE p * p <= r * r * q

Abs(i) == IF i < 0 THEN -i ELSE i

\* a rounding that drops the fraction
MathRound_Truncates(a, b, n, den, q) ==
  LET AtLeast(m) == GeqRoot(b * den * n, m * den * n - a, q)
      bound == (Abs(a) \div (den * n)) + Abs(b) + 1
  IN  IF AtLeast(0)
        THEN CHOOSE k \in 0..bound : AtLeast(k) /\ ~AtLeast(k + 1)
        ELSE CHOOSE k \in -bound..0 : ~AtLeast(k) /\ AtLeast(k - 1)

\* Math.round(a / (den * n) + b / sqrt(q)): the integer k with
\* k - 1/2 <= value < k + 1/2 (a half rounds up)
MathRound(a, b, n, den, q) ==
  LET AtLeast(m) == GeqRoot(2 * b * den * n, m * den * n - 2 * a, q)
      bound == (Abs(a) \div (den * n)) + Abs(b) + 1
  IN  CHOOSE k \in -bound..bound : AtLeast(2 * k - 1) /\ ~AtLeast(2 * k + 1)

\* an offset that is not centered: w itself
WidthOffset_NotCentered(w, width) == w

\* offsets that leave out the line itself: 1, 2, ..., width
WidthOffset_SkipsCenter(w, width) == w + 1

\* widthOffset = w - Math.floor(width / 2)
WidthOffset(w, width) == w - (width \div 2)

\* the point pushed at step i for w, with n = steps - 1
PathPoint(unit, startX, startY, endX, endY, width, i, w, n) ==
  LET dx == endX - startX
      dy == endY - startY
      q == SquaredLength(dx, dy)
      widthOffset == WidthOffset(w, width)
  IN  [x |-> MathRound(startX * n + dx * i, -(dy * widthOffset), n,
                       UnitDen(unit), q),
       y |-> MathRound(startY * n + dy * i, dx * widthOffset, n,
                       UnitDen(unit), q)]

\* a loop that leaves out the last step
GeneratedPath_StopsBeforeEnd(unit, startX, startY, endX, endY, width) ==
  LET n == CeilLength(SquaredLength(endX - startX, endY - startY),
                      UnitDen(unit))
      count == IF width > 0 THEN n * width ELSE 0
      Pushed[j \in 0..count] ==
        IF j = 0 THEN << >>
        ELSE Append(Pushed[j - 1],
                    PathPoint(unit, startX, startY, endX, endY, width,
                              (j - 1) \div width, (j - 1) % width, n))
  IN  Pushed[count]

\* the coordinates pushed by the two loops, in order: the j-th push is the
\* one of step (j - 1) \div width for w = (j - 1) % width
GeneratedPath(unit, startX, startY, endX, endY, width) ==
  LET n == CeilLength(SquaredLength(endX - startX, endY - startY),
                      UnitDen(unit))
      steps == n + 1
      count == IF width > 0 THEN steps * width ELSE 0
      Pushed[j \in 0..count] ==
        IF j = 0 THEN << >>
        ELSE Append(Pushed[j - 1],
                    PathPoint(unit, startX, startY, endX, endY, width,
                              (j - 1) \div width, (j - 1) % width, n))
  IN  Pushed[count]

\* a filter that keeps the last occurrence of a point
UniqueCoords_KeepsLast(coordinates) ==
  LET kept == { j \in 1..Len(coordinates) :
                  \A h \in (j + 1)..Len(coordinates) :
                    coordinates[h] # coordinates[j] }
      F[j \in 0..Len(coordinates)] ==
        IF j = 0 THEN << >>
        ELSE IF j \in kept THEN Append(F[j - 1], coordinates[j])
        ELSE F[j - 1]
  IN  F[Len(coordinates)]

\* coordinates.filter: keep an entry when no earlier entry has its x and y
UniqueCoords(coordinates) ==
  LET F[j \in 0..Len(coordinates)] ==
        IF j = 0 THEN << >>
        ELSE IF \E h \in 1..(j - 1) :
                  /\ coordinates[h].x = coordinates[j].x
                  /\ coordinates[h].y = coordinates[j].y
          THEN F[j - 1]
        ELSE Append(F[j - 1], coordinates[j])
  IN  F[Len(coordinates)]

\* a degenerate case that pushes one point per width
SinglePoint_PerWidth(unit, startX, startY, width) ==
  [w \in 1..width |->
     [x |-> MathRound(startX, 0, 1, UnitDen(unit), 1),
      y |-> MathRound(startY, 0, 1, UnitDen(unit), 1)]]

\* length === 0: the rounded start point
SinglePoint(unit, startX, startY, width) ==
  << [x |-> MathRound(startX, 0, 1, UnitDen(unit), 1),
      y |-> MathRound(startY, 0, 1, UnitDen(unit), 1)] >>

PathCoordinatesOf(unit, startX, startY, endX, endY, width) ==
  IF SquaredLength(endX - startX, endY - startY) = 0
    THEN SinglePoint(unit, startX, startY, width)
    ELSE UniqueCoords(GeneratedPath(unit, startX, startY, endX, endY, width))

\* with an infinite length the number of steps is Infinity and the loop
\* pushes points until the engine fails: the call returns no sequence
getPathCoordinates ==
  /\ lastCall.op = "init"
  /\ lastCall.args.fn = "getPathCoordinates"
  /\ LET a == lastCall.args IN
     lastCall' =
       IF LengthIsInfinite(a.unit, a.endX - a.startX, a.endY - a.startY)
         THEN [NoCall("getPathCoordinates") EXCEPT
                 !.args = a, !.threw = TRUE]
         ELSE [NoCall("getPathCoordinates") EXCEPT
                 !.args = a,
                 !.retCoords = PathCoordinatesOf(a.unit, a.startX, a.startY,
                                                 a.endX, a.endY, a.width)]
  /\ UNCHANGED << cubeRegistry, excludedCoordinates, sceneGroups, groupChildren,
                  sceneChildren >>
  /\ UNCHANGED << leaked, elsewhere >>

(***************************************************************************)
(* authenticateToken and GET /verify.  A string is the sequence of its     *)
(* characters.                                                             *)
(***************************************************************************)
\* the requests the server can be handling at once
Requests == {"req1", "req2"}

\* String.prototype.split(' '): the pieces between the spaces, from a string
\* read so far as `parts`
RECURSIVE SplitFrom(_, _)
SplitFrom(str, parts) ==
  IF str = << >> THEN parts
  ELSE SplitFrom(Tail(str),
         IF Head(str) = " " THEN Append(parts, << >>)
         ELSE [parts EXCEPT ![Len(parts)] = Append(@, Head(str))])

Split(str) == SplitFrom(str, << << >> >>)

\* a token read from the first piece of the header
TokenOf_FirstPiece(authHeader) ==
  IF authHeader = Undefined THEN Undefined
  ELSE IF authHeader[1] = << >> THEN Some(<< >>)
  ELSE Some(Split(authHeader[1])[1])

\* line 19: authHeader && authHeader.split(' ')[1]
TokenOf(authHeader) ==
  IF authHeader = Undefined THEN Undefined
  ELSE IF authHeader[1] = << >> THEN Some(<< >>)
  ELSE LET parts == Split(authHeader[1])
       IN  IF Len(parts) >= 2 THEN Some(parts[2]) ELSE Undefined

\* !token: undefined or the empty string
Falsy(token) == token = Undefined \/ token[1] = << >>

\* the tokens verifyIdToken can resolve for, and what it resolves to
DecodedTokens ==
  [t \in {<< "g" >>, << "h" >>} |->
     IF t = << "g" >> THEN [uid |-> "uid-g", email |-> "g@example.com"]
     ELSE [uid |-> "uid-h", email |-> "h@example.com"]]

\* a middleware that looks at the Admin SDK before it looks at the token
EarlyStatus_InitFirst(token, apps) ==
  IF apps = 0 THEN 503
  ELSE IF Falsy(token) THEN 401
  ELSE 0

\* lines 21-32: the status of the response sent before any verification,
\* 0 when none is sent
EarlyStatus(token, apps) ==
  IF Falsy(token) THEN 401
  ELSE IF apps = 0 THEN 503
  ELSE 0

NoRequest ==
  [pc |-> "idle", header |-> Undefined, token |-> Undefined, user |-> Undefined,
   verify |-> "none", nexts |-> 0, responses |-> << >>]

\* res.status(status).json({ error })
ErrorResponse(status) == [status |-> status, authenticated |-> FALSE, uid |-> Undefined]

\* lines 79-86: res.json({ authenticated: true, user: { uid: req.user?.uid } })
VerifyResponse(user) ==
  [status |-> 200, authenticated |-> TRUE,
   uid |-> IF user = Undefined THEN Undefined ELSE Some(user[1].uid)]

\* lines 17-35: the request arrives with `authHeader`; the middleware runs up
\* to its first response or to the await of verifyIdToken
authenticateToken(r, authHeader) ==
  /\ requests[r].pc = "idle"
  /\ LET token == TokenOf(authHeader)
         status == EarlyStatus(token, adminApps)
     IN  requests' =
           [requests EXCEPT ![r] =
              IF status # 0
              THEN [@ EXCEPT !.pc = "done", !.header = authHeader,
                             !.responses = Append(@, ErrorResponse(status))]
              ELSE [@ EXCEPT !.pc = "verifyIdToken", !.header = authHeader,
                             !.token = token]]
  /\ UNCHANGED << rendererVars, adminApps, scriptVars, spriteVars >>

\* a middleware that lets the request through when verification rejects
verifyIdTokenRejects_CallsNext(r) ==
  /\ requests[r].pc = "verifyIdToken"
  /\ requests' =
       [requests EXCEPT ![r] =
          [@ EXCEPT !.pc = "done", !.verify = "rejected",
                    !.nexts = @ + 1,
                    !.responses = Append(@, VerifyResponse(requests[r].user))]]
  /\ UNCHANGED << rendererVars, adminApps, scriptVars, spriteVars >>

\* lines 35-38 and 78-87: verifyIdToken resolves; req.user is the decoded
\* token, next() runs the handler of /verify, which answers
verifyIdTokenResolves(r) ==
  /\ requests[r].pc = "verifyIdToken"
  /\ requests[r].token[1] \in DOMAIN DecodedTokens
  /\ LET decodedToken == DecodedTokens[requests[r].token[1]]
     IN  requests' =
           [requests EXCEPT ![r] =
              [@ EXCEPT !.pc = "done", !.verify = "resolved",
                        !.user = Some(decodedToken),
                        !.nexts = @ + 1,
                        !.responses = Append(@, VerifyResponse(Some(decodedToken)))]]
  /\ UNCHANGED << rendererVars, adminApps, scriptVars, spriteVars >>

\* lines 35 and 39-42: verifyIdToken rejects (a token Firebase did not sign,
\* an expired one, a fault of the service); the catch answers 403
verifyIdTokenRejects(r) ==
  /\ requests[r].pc = "verifyIdToken"
  /\ requests' =
       [requests EXCEPT ![r] =
          [@ EXCEPT !.pc = "done", !.verify = "rejected",
                    !.responses = Append(@, ErrorResponse(403))]]
  /\ UNCHANGED << rendererVars, adminApps, scriptVars, spriteVars >>

(***************************************************************************)
(* scripts/add-admin.js: addAdminUser.  Each run is a process of its own   *)
(* with its own connection; the database serves one operation at a time.   *)
(* The script creates no index, and a collection that an insert creates    *)
(* has the index of _id only.                                              *)
(***************************************************************************)
\* the runs of the script that can be in progress at once
Runs == {"run1", "run2"}

\* the e-mail addresses a run can be given
Emails == {"a@example.com", "b@example.com"}

NoRun == [pc |-> "idle", adminEmail |-> "", existingAdmin |-> Undefined]

\* line 135: findOne({ email }): the first document with the e-mail, or null
FindOneIn(collection, email) ==
  LET found == SelectSeq(collection, LAMBDA d : d.email = email)
  IN  IF Len(found) = 0 THEN Undefined ELSE Some(Head(found))

\* lines 144-149 and the _id the driver gives a document without one
AdminRecord(collection, email) ==
  [_id |-> Len(collection) + 1, email |-> email, added_by |-> "migration-script"]

\* lines 120-132: a run starts for `email` and connects
addAdminUser(run, email) ==
  /\ runs[run].pc = "idle"
  /\ runs' = [runs EXCEPT ![run] = [NoRun EXCEPT !.pc = "findOne",
                                                 !.adminEmail = email]]
  /\ UNCHANGED << rendererVars, authVars, admins, spriteVars >>

\* lines 135-141: the database answers findOne; a run that gets a document
\* returns, another one goes on to insertOne
findOne(run) ==
  /\ runs[run].pc = "findOne"
  /\ LET existingAdmin == FindOneIn(admins, runs[run].adminEmail)
     IN  runs' = [runs EXCEPT ![run] =
                    [@ EXCEPT !.existingAdmin = existingAdmin,
                              !.pc = IF existingAdmin # Undefined THEN "close"
                                     ELSE "insertOne"]]
  /\ UNCHANGED << rendererVars, authVars, admins, spriteVars >>

\* lines 144-151: the database executes the insertOne of the run
insertOne(run) ==
  /\ runs[run].pc = "insertOne"
  /\ admins' = Append(admins, AdminRecord(admins, runs[run].adminEmail))
  /\ runs' = [runs EXCEPT ![run] = [@ EXCEPT !.pc = "close"]]
  /\ UNCHANGED << rendererVars, authVars, spriteVars >>

\* lines 167-171: the connection is closed and the process ends; the script
\* can be run again
close(run) ==
  /\ runs[run].pc = "close"
  /\ runs' = [runs EXCEPT ![run] = NoRun]
  /\ UNCHANGED << rendererVars, authVars, admins, spriteVars >>

(***************************************************************************)
(* PlayerManager: the two-frame animation of the sprite players.           *)
(***************************************************************************)
Players == {"p1", "p2"}

\* milliseconds between two values of the clock
ClockUnit == 250

\* the clock stops here
MaxClock == 6

FRAME_DURATION == 500

\* lines 440-446: the animation state of a new sprite player
NewAnimation(time) ==
  [currentFrame |-> 1, lastFrameTime |-> time, isMoving |-> FALSE]

\* lines 359-458: the textures, the mesh with frame 1 in its material and
\* the animation state of the player are stored
createSpritePlayerModel(playerId) ==
  /\ spriteAnimations' =
       [spriteAnimations EXCEPT ![playerId] = Some(NewAnimation(now))]
  /\ spriteMaterialMap' = [spriteMaterialMap EXCEPT ![playerId] = Some(1)]
  /\ UNCHANGED << rendererVars, authVars, scriptVars, now >>

\* lines 868-884: the textures, the mesh reference and the animation state
\* of the player are deleted
disposePlayerMesh(playerId) ==
  /\ spriteAnimations[playerId] # Undefined
  /\ spriteAnimations' = [spriteAnimations EXCEPT ![playerId] = Undefined]
  /\ spriteMaterialMap' = [spriteMaterialMap EXCEPT ![playerId] = Undefined]
  /\ UNCHANGED << rendererVars, authVars, scriptVars, now >>

\* a frame change as soon as the frame duration has passed
FrameIsDue_AtDuration(time, lastFrameTime) ==
  (time - lastFrameTime) * ClockUnit >= FRAME_DURATION

\* line 706: (now - animData.lastFrameTime) > FRAME_DURATION
FrameIsDue(time, lastFrameTime) ==
  (time - lastFrameTime) * ClockUnit > FRAME_DURATION

\* line 709
OtherFrame(currentFrame) == IF currentFrame = 1 THEN 2 ELSE 1

\* an update that leaves a resting player on the frame it has
AnimationAfter_NoReset(animData, isMoving, time) ==
  IF isMoving /\ FrameIsDue(time, animData.lastFrameTime)
  THEN [currentFrame |-> OtherFrame(animData.currentFrame),
        lastFrameTime |-> time, isMoving |-> isMoving]
  ELSE [animData EXCEPT !.isMoving = isMoving]

\* lines 701-723: the animation state after the call
AnimationAfter(animData, isMoving, time) ==
  IF isMoving /\ FrameIsDue(time, animData.lastFrameTime)
  THEN [currentFrame |-> OtherFrame(animData.currentFrame),
        lastFrameTime |-> time, isMoving |-> isMoving]
  ELSE IF ~isMoving /\ animData.currentFrame # 1
  THEN [animData EXCEPT !.isMoving = isMoving, !.currentFrame = 1]
  ELSE [animData EXCEPT !.isMoving = isMoving]

\* lines 729-763, updateSpriteTexture: material.map becomes the texture of
\* the current frame, unless the player has no animation state or no mesh
TextureAfter(map, animation) ==
  IF animation = Undefined \/ map = Undefined THEN map
  ELSE Some(animation[1].currentFrame)

\* lines 690-724; updateSpriteTexture is called where the frame changes
updateSpriteAnimation(playerId, isMoving) ==
  /\ IF spriteAnimations[playerId] = Undefined
     THEN UNCHANGED << spriteAnimations, spriteMaterialMap >>
     ELSE LET animData == spriteAnimations[playerId][1]
              after == AnimationAfter(animData, isMoving, now)
          IN  /\ spriteAnimations' =
                   [spriteAnimations EXCEPT ![playerId] = Some(after)]
              /\ spriteMaterialMap' =
                   IF after.currentFrame # animData.currentFrame
                   THEN [spriteMaterialMap EXCEPT ![playerId] =
                           TextureAfter(@, Some(after))]
                   ELSE spriteMaterialMap
  /\ UNCHANGED << rendererVars, authVars, scriptVars, now >>

\* Date.now() moves on
tick ==
  /\ now < MaxClock
  /\ now' = now + 1
  /\ UNCHANGED << rendererVars, authVars, scriptVars, spriteAnimations,
                  spriteMaterialMap >>

(***************************************************************************)
(* The state after class initialization, and the calls a client can make.  *)
(***************************************************************************)
\* no request has arrived
InitAuth ==
  /\ adminApps \in {0, 1}
  /\ requests = [r \in Requests |-> NoRequest]

\* an empty database, no run of the script
InitScript ==
  /\ admins = << >>
  /\ runs = [run \in Runs |-> NoRun]

\* no sprite player
InitSprites ==
  /\ spriteAnimations = [p \in Players |-> Undefined]
  /\ spriteMaterialMap = [p \in Players |-> Undefined]
  /\ now = 0

\* the server, the script and the players at rest
InitElsewhere ==
  /\ adminApps = 0
  /\ requests = [r \in Requests |-> NoRequest]
  /\ InitScript
  /\ InitSprites

\* the floor renderer after class initialization
InitRenderer ==
  /\ cubeRegistry = << >>
  /\ excludedCoordinates = {}
  /\ sceneGroups = [s \in Scenes |-> NoGroup]
  /\ groupChildren = [g \in GroupIds |-> << >>]
  /\ sceneChildren = [s \in Scenes |-> {}]

\* no ledger of the graphics resources is kept
Init ==
  /\ InitRenderer
  /\ leaked = Undefined
  /\ lastCall = NoCall("init")
  /\ InitElsewhere

\* every call a client can make, with its arguments drawn from the given
\* batches, scenes, colors and cube sizes
Calls(batches, scenes, colors, cubeSizes) ==
  \/ clearRegistry
  \/ \E coordinates \in batches : setExcludedCoordinates(coordinates)
  \/ \E coordinates \in batches : unregisterCoordinates(coordinates)
  \/ getAllCoordinates
  \/ \E coordinates \in batches, color \in colors, type \in Types :
       registerCubes(coordinates, color, type)
  \/ \E scene \in scenes, cubeSize \in cubeSizes, yOffset \in YOffsets :
       renderAllCubes(scene, cubeSize, yOffset)
  \/ \E scene \in scenes, cubeSize \in cubeSizes, yOffset \in YOffsets,
        n \in 1..Cardinality(Coords) :
       renderAllCubesThrows(scene, cubeSize, yOffset, n)
  \/ dispose

\* one render surface, one color, one cube size, batches over all the
\* coordinates
Next == Calls(Batches, {"sceneA"}, {255}, {1})

Spec == Init /\ [][Next]_vars

\* the registry alone: the calls that read or write the registry and the
\* exclusions, every color, batches over all the coordinates
NextRegistry ==
  \/ clearRegistry
  \/ \E coordinates \in Batches : setExcludedCoordinates(coordinates)
  \/ \E coordinates \in Batches : unregisterCoordinates(coordinates)
  \/ getAllCoordinates
  \/ \E coordinates \in Batches, color \in Colors, type \in Types :
       registerCubes(coordinates, color, type)

SpecRegistry == Init /\ [][NextRegistry]_vars

\* every render surface, every color, every cube size, batches over one
\* coordinate
NextScenes == Calls(BatchesOver({[x |-> 0, y |-> 0]}), Scenes, Colors, CubeSizes)

SpecScenes == Init /\ [][NextScenes]_vars

\* the placement of the meshes: one render surface, one color, every cube
\* size and several vertical offsets
AnyYOffsets == {-1, 0, 1}

NextPlacement ==
  \/ \E coordinates \in Batches, type \in Types :
       registerCubes(coordinates, 255, type)
  \/ \E cubeSize \in CubeSizes, yOffset \in AnyYOffsets :
       renderAllCubes("sceneA", cubeSize, yOffset)

SpecPlacement == Init /\ [][NextPlacement]_vars

\* the graphics resources: a ledger is kept from the start; every render
\* surface, one color, one cube size, batches over one coordinate
InitResources ==
  /\ InitRenderer
  /\ leaked = Some({})
  /\ lastCall = NoCall("init")
  /\ InitElsewhere

NextResources ==
  \/ \E coordinates \in BatchesOver({[x |-> 0, y |-> 0]}), type \in Types :
       registerCubes(coordinates, 255, type)
  \/ \E coordinates \in BatchesOver({[x |-> 0, y |-> 0]}) :
       unregisterCoordinates(coordinates)
  \/ \E scene \in Scenes : renderAllCubes(scene, 1, 0)
  \/ \E scene \in Scenes, n \in 1..Cardinality(Coords) :
       renderAllCubesThrows(scene, 1, 0, n)
  \/ dispose

SpecResources == InitResources /\ [][NextResources]_vars

\* the rasterizer alone: one call of getAreaCoordinates or
\* getPathCoordinates, its arguments drawn at the start
MaxPath == 3

PathRange == -1..MaxPath

AreaArgs ==
  { [NoArgs EXCEPT !.fn = "getAreaCoordinates", !.startX = a, !.startY = b,
                   !.endX = c, !.endY = d] :
      a \in PathRange, b \in PathRange, c \in PathRange, d \in PathRange }

MaxWidth == 3

Widths == -1..MaxWidth

\* integer points and every width; equal start and end counted in halves;
\* distinct points counted in multiples of 2^600
PathArgs ==
  { [NoArgs EXCEPT !.fn = "getPathCoordinates", !.startX = a, !.startY = b,
                   !.endX = c, !.endY = d, !.width = width] :
      a \in PathRange, b \in PathRange, c \in PathRange, d \in PathRange,
      width \in Widths }
  \cup
  { [NoArgs EXCEPT !.fn = "getPathCoordinates", !.unit = "half",
                   !.startX = a, !.startY = b, !.endX = a, !.endY = b,
                   !.width = width] :
      a \in PathRange, b \in PathRange, width \in Widths }
  \cup
  { [NoArgs EXCEPT !.fn = "getPathCoordinates", !.unit = "huge",
                   !.startX = a, !.endX = c, !.width = width] :
      a \in {-1, 0}, c \in {1}, width \in 1..MaxWidth }

InitRasterizer ==
  /\ InitRenderer
  /\ leaked = Undefined
  /\ InitElsewhere
  /\ \E args \in AreaArgs \cup PathArgs :
       lastCall = [NoCall("init") EXCEPT !.args = args]

NextRasterizer ==
  \/ getAreaCoordinates
  \/ getPathCoordinates

SpecRasterizer == InitRasterizer /\ [][NextRasterizer]_vars

\* the middleware alone: the Admin SDK initialized or not, two requests of
\* GET /verify in flight, every header
Headers ==
  { Undefined, Some(<< >>), Some(<< "B" >>), Some(<< "B", " " >>),
    Some(<< "g" >>), Some(<< "B", " ", " ", "g" >>),
    Some(<< "B", " ", "g" >>), Some(<< "B", " ", "h" >>),
    Some(<< "B", " ", "x" >>), Some(<< "B", " ", "g", " ", "x" >>) }

InitAuthOnly ==
  /\ InitRenderer
  /\ leaked = Undefined
  /\ lastCall = NoCall("init")
  /\ InitAuth
  /\ InitScript
  /\ InitSprites

NextAuth ==
  \/ \E r \in Requests, authHeader \in Headers : authenticateToken(r, authHeader)
  \/ \E r \in Requests : verifyIdTokenResolves(r)
  \/ \E r \in Requests : verifyIdTokenRejects(r)

SpecAuth == InitAuthOnly /\ [][NextAuth]_vars

\* the script alone: two runs at a time, over and over
NextScript ==
  \/ \E run \in Runs, email \in Emails : addAdminUser(run, email)
  \/ \E run \in Runs : findOne(run)
  \/ \E run \in Runs : insertOne(run)
  \/ \E run \in Runs : close(run)

SpecScript == Init /\ [][NextScript]_vars

\* the sprite players alone
NextSprites ==
  \/ \E playerId \in Players : createSpritePlayerModel(playerId)
  \/ \E playerId \in Players : disposePlayerMesh(playerId)
  \/ \E playerId \in Players, isMoving \in BOOLEAN :
       updateSpriteAnimation(playerId, isMoving)
  \/ tick

SpecSprites == Init /\ [][NextSprites]_vars

(***************************************************************************)
(* Vocabulary of the properties.                                           *)
(***************************************************************************)
KeyOf(coord) == getCubeKey(coord.x, coord.y)

\* the record stored under a key, as a sequence of zero or one record
EntryOf(reg, k) == IF MapHas(reg, k) THEN << MapGet(reg, k) >> ELSE << >>

\* the key-to-record mapping of a registry, iteration order left out
AsMapping(reg) == [k \in MapKeys(reg) |-> MapGet(reg, k)]

\* number of entries stored under a key
CountKey(reg, k) == Cardinality({ i \in 1..Len(reg) : reg[i].key = k })

IsOverlap(reg, k) ==
  /\ MapHas(reg, k)
  /\ MapGet(reg, k).type = "overlap"

\* C1: a registerCubes call leaves every non-excluded coordinate of its batch
\* whose key was occupied before the call, or is named earlier in the batch,
\* classified 'overlap' with color 0x800080, whatever the old and the new
\* classification; so registering a batch a second time leaves every
\* non-excluded coordinate of it Overlap.
C1_OccupiedKeyBecomesOverlap ==
  [][lastCall'.op = "registerCubes" =>
       LET b == lastCall'.coords IN
       /\ \A i \in 1..Len(b) :
            ( /\ KeyOf(b[i]) \notin excludedCoordinates
              /\ \/ MapHas(cubeRegistry, KeyOf(b[i]))
                 \/ \E j \in 1..(i - 1) : KeyOf(b[j]) = KeyOf(b[i]) )
            => /\ IsOverlap(cubeRegistry', KeyOf(b[i]))
               /\ MapGet(cubeRegistry', KeyOf(b[i])).color = 8388736
       /\ ( lastCall.op = "registerCubes" /\ lastCall.coords = b )
          => \A i \in 1..Len(b) :
               KeyOf(b[i]) \notin excludedCoordinates
               => /\ IsOverlap(cubeRegistry', KeyOf(b[i]))
                  /\ MapGet(cubeRegistry', KeyOf(b[i])).color = 8388736
    ]_vars

\* a batch of two distinct coordinates, none excluded, was registered and both
\* records are Overlap now
C1_Witness ==
  /\ lastCall.op = "registerCubes"
  /\ Len(lastCall.coords) = 2
  /\ lastCall.coords[1] # lastCall.coords[2]
  /\ \A i \in 1..2 :
       /\ KeyOf(lastCall.coords[i]) \notin excludedCoordinates
       /\ IsOverlap(cubeRegistry, KeyOf(lastCall.coords[i]))
       /\ MapGet(cubeRegistry, KeyOf(lastCall.coords[i])).color = OverlapColor

\* C2: a registerCubes call leaves the registry entry (present or absent) of
\* every excluded coordinate of its batch exactly as it was.
C2_ExcludedIsNoOp ==
  [][lastCall'.op = "registerCubes" =>
       \A i \in 1..Len(lastCall'.coords) :
         LET k == KeyOf(lastCall'.coords[i]) IN
         k \in excludedCoordinates
         => /\ EntryOf(cubeRegistry', k) = EntryOf(cubeRegistry, k)
            /\ k \in excludedCoordinates'
    ]_vars

\* registerCubes was called with an excluded coordinate that holds a record
\* from before the exclusion (still a room) and with an excluded coordinate
\* that holds none
C2_Witness ==
  /\ lastCall.op = "registerCubes"
  /\ \E i \in 1..Len(lastCall.coords) :
       /\ KeyOf(lastCall.coords[i]) \in excludedCoordinates
       /\ MapHas(cubeRegistry, KeyOf(lastCall.coords[i]))
       /\ MapGet(cubeRegistry, KeyOf(lastCall.coords[i])).type = "room"
  /\ \E i \in 1..Len(lastCall.coords) :
       /\ KeyOf(lastCall.coords[i]) \in excludedCoordinates
       /\ ~MapHas(cubeRegistry, KeyOf(lastCall.coords[i]))

\* C3: from every reachable registry and exclusion set, registering a batch A
\* as room and then a batch B as hallway gives the same key-to-record mapping
\* as registering B as hallway and then A as room, and every non-excluded
\* coordinate named in both batches is Overlap with color 0x800080 either way.
C3_RoomHallwayOrderIrrelevant ==
  \A A \in Batches, colorA \in Colors :
    LET excl == excludedCoordinates
        roomOnly == RegisterFrom(cubeRegistry, excl, A, colorA, "room")
    IN \A B \in Batches, colorB \in Colors :
         LET roomFirst == RegisterFrom(roomOnly, excl, B, colorB, "hallway")
             hallwayFirst ==
               RegisterFrom(RegisterFrom(cubeRegistry, excl, B, colorB, "hallway"),
                            excl, A, colorA, "room")
         IN /\ AsMapping(roomFirst) = AsMapping(hallwayFirst)
            /\ \A i \in 1..Len(A) :
                 LET key == KeyOf(A[i])
                     roomFirstInfo == EntryOf(roomFirst, key)
                     hallwayFirstInfo == EntryOf(hallwayFirst, key)
                 IN  ((\E j \in 1..Len(B) : A[i] = B[j]) /\ key \notin excl)
                     => /\ roomFirstInfo # << >>
                        /\ hallwayFirstInfo # << >>
                        /\ roomFirstInfo[1].type = "overlap"
                        /\ hallwayFirstInfo[1].type = "overlap"
                        /\ roomFirstInfo[1].color = 8388736
                        /\ hallwayFirstInfo[1].color = 8388736

\* the registry holds what registering a batch A as room and then a batch B as
\* hallway leaves from the empty registry, B was registered last, and the
\* registry holds a room, and an overlap on a coordinate of both batches
C3_Witness ==
  /\ lastCall.op = "registerCubes"
  /\ \E A \in Batches, colorA \in Colors, colorB \in Colors :
       /\ cubeRegistry =
            RegisterFrom(RegisterFrom(<< >>, excludedCoordinates, A, colorA, "room"),
                         excludedCoordinates, lastCall.coords, colorB, "hallway")
       /\ \E i \in 1..Len(A), j \in 1..Len(lastCall.coords) :
            /\ A[i] = lastCall.coords[j]
            /\ IsOverlap(cubeRegistry, KeyOf(A[i]))
       /\ \E i \in 1..Len(A) :
            /\ MapHas(cubeRegistry, KeyOf(A[i]))
            /\ MapGet(cubeRegistry, KeyOf(A[i])).type = "room"

\* C4: in a registerCubes call, a non-excluded coordinate whose key holds no
\* record gets exactly one record, with the given position, color and
\* classification, at the moment it is processed (and keeps it to the end of
\* the call unless the batch names the coordinate again); the call adds one
\* entry per such key and changes no record under a key the batch does not
\* name.
C4_FreshKeyInserted ==
  [][lastCall'.op = "registerCubes" =>
       \A color \in Colors, type \in Types :
         registerCubes(lastCall'.coords, color, type) =>
           LET b == lastCall'.coords
               excl == excludedCoordinates
               fresh == { i \in 1..Len(b) :
                            /\ KeyOf(b[i]) \notin excl
                            /\ ~MapHas(cubeRegistry, KeyOf(b[i]))
                            /\ \A j \in 1..(i - 1) : KeyOf(b[j]) # KeyOf(b[i]) }
               before(i) == RegisterFrom(cubeRegistry, excl, SubSeq(b, 1, i - 1),
                                         color, type)
               after(i) == RegisterFrom(cubeRegistry, excl, SubSeq(b, 1, i),
                                        color, type)
               given(i) == [position |-> b[i], color |-> color, type |-> type]
           IN /\ \A i \in fresh :
                   /\ EntryOf(after(i), KeyOf(b[i])) = << given(i) >>
                   /\ CountKey(after(i), KeyOf(b[i])) = 1
                   /\ Len(after(i)) = Len(before(i)) + 1
                   /\ \A k \in MapKeys(before(i)) :
                        EntryOf(after(i), k) = EntryOf(before(i), k)
                   /\ (\A j \in (i + 1)..Len(b) : KeyOf(b[j]) # KeyOf(b[i]))
                      => EntryOf(cubeRegistry', KeyOf(b[i])) = << given(i) >>
              /\ Len(cubeRegistry') = Len(cubeRegistry) + Cardinality(fresh)
              /\ \A k \in MapKeys(cubeRegistry) \cup MapKeys(cubeRegistry') :
                   (\A i \in 1..Len(b) : KeyOf(b[i]) # k)
                   => EntryOf(cubeRegistry', k) = EntryOf(cubeRegistry, k)
    ]_vars

\* registerCubes was called with one coordinate, which is not excluded and now
\* holds a hallway record of color 65280, beside a room record of color 255
\* under the other key
C4_Witness ==
  /\ lastCall.op = "registerCubes"
  /\ Len(lastCall.coords) = 1
  /\ KeyOf(lastCall.coords[1]) \notin excludedCoordinates
  /\ EntryOf(cubeRegistry, KeyOf(lastCall.coords[1]))
       = << [position |-> lastCall.coords[1], color |-> 65280, type |-> "hallway"] >>
  /\ Len(cubeRegistry) = 2
  /\ \E i \in 1..2 : /\ cubeRegistry[i].value.type = "room"
                     /\ cubeRegistry[i].value.color = 255

\* C5: a record that is Overlap before a step is Overlap after it, unless the
\* step removes the record, and then the step is a full clear of the registry
\* (clearRegistry, or dispose, which clears it too) or an
\* unregisterCoordinates call that names the coordinate; so no registerCubes,
\* setExcludedCoordinates or renderAllCubes step takes a record out of Overlap.
C5_OverlapIrreversible ==
  [][\A k \in MapKeys(cubeRegistry) :
       (IsOverlap(cubeRegistry, k) /\ ~IsOverlap(cubeRegistry', k))
       => /\ ~MapHas(cubeRegistry', k)
          /\ \/ lastCall'.op \in {"clearRegistry", "dispose"}
             \/ /\ lastCall'.op = "unregisterCoordinates"
                /\ \E i \in 1..Len(lastCall'.coords) : KeyOf(lastCall'.coords[i]) = k
    ]_vars

\* registerCubes was just called with two coordinates whose records are
\* Overlap, the first of them excluded: both records are Overlap
C5_Witness ==
  /\ lastCall.op = "registerCubes"
  /\ Len(lastCall.coords) = 2
  /\ \A i \in 1..2 : IsOverlap(cubeRegistry, KeyOf(lastCall.coords[i]))
  /\ KeyOf(lastCall.coords[1]) \in excludedCoordinates
  /\ KeyOf(lastCall.coords[2]) \notin excludedCoordinates

\* the name renderAllCubes gives the mesh of a record
FloorCubeName(type, coord) ==
  "FloorCube_" \o type \o "_" \o ToString(coord.x) \o "_" \o ToString(coord.y)

MeshIsFor(mesh, cubeInfo) == mesh.name = FloorCubeName(cubeInfo.type, cubeInfo.position)

\* the indices of the records whose key is not excluded
VisibleRecords == { i \in 1..Len(cubeRegistry) :
                      cubeRegistry[i].key \notin excludedCoordinates }

\* C6: right after a renderAllCubes call that returned, the returned group is
\* the group of the scene, it is attached to the scene, and it holds exactly
\* one mesh per record whose key is not excluded and no other mesh, whatever
\* it held before; with no such record (an empty registry) the call cannot
\* throw and the group is empty.
C6_RenderShowsExactlyVisible ==
  lastCall.op = "renderAllCubes" =>
    LET sceneGroup == sceneGroups[lastCall.scene]
        meshes == groupChildren[sceneGroup]
    IN /\ sceneGroup # NoGroup
       /\ sceneGroup \in sceneChildren[lastCall.scene]
       /\ VisibleRecords = {} => (~lastCall.threw /\ meshes = << >>)
       /\ ~lastCall.threw =>
            /\ lastCall.retGroup = sceneGroup
            /\ Len(meshes) = Cardinality(VisibleRecords)
            /\ \A i \in VisibleRecords :
                 Cardinality({ j \in 1..Len(meshes) :
                                 MeshIsFor(meshes[j], cubeRegistry[i].value) }) = 1
            /\ \A j \in 1..Len(meshes) :
                 \E i \in VisibleRecords : MeshIsFor(meshes[j], cubeRegistry[i].value)

\* renderAllCubes returned a group of one mesh while the registry holds two
\* records, one of them excluded
C6_Witness ==
  /\ lastCall.op = "renderAllCubes"
  /\ ~lastCall.threw
  /\ Len(cubeRegistry) = 2
  /\ Cardinality(VisibleRecords) = 1
  /\ Len(groupChildren[lastCall.retGroup]) = 1

\* C7: setExcludedCoordinates leaves every record in the registry, those of
\* the coordinates it names too (getAllCoordinates still returns them), and
\* right after any renderAllCubes call, complete or not, the group of the
\* scene holds no mesh for a coordinate whose key is excluded.
C7_ExcludedNeverMaterialized ==
  /\ [](lastCall.op = "renderAllCubes" =>
          \A c \in Coords, type \in Types \cup {"overlap"} :
            KeyOf(c) \in excludedCoordinates
            => \A j \in 1..Len(groupChildren[sceneGroups[lastCall.scene]]) :
                 groupChildren[sceneGroups[lastCall.scene]][j].name
                   # FloorCubeName(type, c))
  /\ [][lastCall'.op = "setExcludedCoordinates" =>
          /\ AllCoordinatesOf(cubeRegistry') = AllCoordinatesOf(cubeRegistry)
          /\ \A i \in 1..Len(lastCall'.coords) :
               /\ KeyOf(lastCall'.coords[i]) \in excludedCoordinates'
               /\ EntryOf(cubeRegistry', KeyOf(lastCall'.coords[i]))
                    = EntryOf(cubeRegistry, KeyOf(lastCall'.coords[i]))
       ]_vars

\* renderAllCubes returned while the registry holds a record whose key is
\* excluded (getAllCoordinates returns its position) beside a rendered one
C7_Witness ==
  /\ lastCall.op = "renderAllCubes"
  /\ ~lastCall.threw
  /\ Len(groupChildren[lastCall.retGroup]) = 1
  /\ \E i \in 1..Len(cubeRegistry) :
       /\ cubeRegistry[i].key \in excludedCoordinates
       /\ \E j \in 1..Len(AllCoordinatesOf(cubeRegistry)) :
            AllCoordinatesOf(cubeRegistry)[j] = cubeRegistry[i].value.position

\* C8: a renderAllCubes call that returns, made right after a renderAllCubes
\* call on the same scene that returned, leaves the group with as many meshes
\* as the first call left.
C8_RenderTwiceSameCount ==
  [][( /\ lastCall.op = "renderAllCubes" /\ ~lastCall.threw
       /\ lastCall'.op = "renderAllCubes" /\ ~lastCall'.threw
       /\ lastCall'.scene = lastCall.scene )
     => /\ lastCall'.retGroup = lastCall.retGroup
        /\ Len(groupChildren'[lastCall'.retGroup])
             = Len(groupChildren[lastCall.retGroup])
    ]_vars

\* renderAllCubes returned a non-empty group (cubes of size 2, the cube of an
\* Overlap record among them): the state a second pass starts from
C8_Witness ==
  /\ lastCall.op = "renderAllCubes"
  /\ ~lastCall.threw
  /\ Len(groupChildren[lastCall.retGroup]) >= 1
  /\ groupChildren[lastCall.retGroup][1].position.y2 = 2
  /\ \E i \in VisibleRecords : cubeRegistry[i].value.type = "overlap"

\* the groups sceneGroups references
TrackedGroups == { sceneGroups[s] : s \in Scenes } \ {NoGroup}

\* C9: at every state a scene has its tracked group attached and no other
\* group, and two scenes never share a group; a renderAllCubes call for a
\* scene without a group creates one (no scene had it) and attaches it to
\* that scene alone, and a call for a scene with a group keeps that group and
\* attaches nothing; a call that returns, returns the group of its scene.
C9_OneGroupPerScene ==
  /\ [](/\ \A s \in Scenes :
             sceneChildren[s] =
               IF sceneGroups[s] = NoGroup THEN {} ELSE {sceneGroups[s]}
        /\ \A s \in Scenes, t \in Scenes :
             (s # t /\ sceneGroups[s] # NoGroup) => sceneGroups[s] # sceneGroups[t])
  /\ [][lastCall'.op = "renderAllCubes" =>
          LET scene == lastCall'.scene IN
          /\ sceneGroups[scene] = NoGroup =>
               /\ sceneGroups'[scene] # NoGroup
               /\ sceneGroups'[scene] \notin TrackedGroups
               /\ sceneChildren'[scene] = {sceneGroups'[scene]}
          /\ sceneGroups[scene] # NoGroup =>
               /\ sceneGroups'[scene] = sceneGroups[scene]
               /\ sceneChildren'[scene] = sceneChildren[scene]
          /\ \A t \in Scenes \ {scene} :
               /\ sceneGroups'[t] = sceneGroups[t]
               /\ sceneChildren'[t] = sceneChildren[t]
          /\ ~lastCall'.threw => lastCall'.retGroup = sceneGroups'[scene]
       ]_vars

\* renderAllCubes returned the group of sceneB while sceneA has a group of
\* its own, which holds a mesh: both scenes were rendered
C9_Witness ==
  /\ lastCall.op = "renderAllCubes"
  /\ lastCall.scene = "sceneB"
  /\ lastCall.retGroup = sceneGroups["sceneB"]
  /\ sceneGroups["sceneA"] # NoGroup
  /\ sceneGroups["sceneA"] # sceneGroups["sceneB"]
  /\ Len(groupChildren[sceneGroups["sceneA"]]) = 1

\* C10: right after dispose the registry and the exclusion set are empty, no
\* scene has a group and no scene has a group attached (the groups dispose
\* removed included): the state of Init; and a renderAllCubes call made then
\* creates a group, attaches it to its scene and returns it empty.
C10_DisposeResets ==
  /\ [](lastCall.op = "dispose" =>
          /\ cubeRegistry = << >>
          /\ excludedCoordinates = {}
          /\ \A s \in Scenes : sceneGroups[s] = NoGroup
          /\ \A s \in Scenes : sceneChildren[s] = {})
  /\ [][(lastCall.op = "dispose" /\ lastCall'.op = "renderAllCubes") =>
          LET sceneGroup == sceneGroups'[lastCall'.scene] IN
          /\ ~lastCall'.threw
          /\ sceneGroup # NoGroup
          /\ lastCall'.retGroup = sceneGroup
          /\ sceneChildren'[lastCall'.scene] = {sceneGroup}
          /\ groupChildren'[sceneGroup] = << >>
          /\ \A t \in Scenes \ {lastCall'.scene} :
               sceneGroups'[t] = NoGroup /\ sceneChildren'[t] = {}
          /\ cubeRegistry' = << >>
          /\ excludedCoordinates' = {}
       ]_vars

\* dispose was called while both scenes had a group and removed both
C10_Witness ==
  /\ lastCall.op = "dispose"
  /\ lastCall.removed = Scenes

(***************************************************************************)
(* Teardown and the registry operations (claims C11 to C20).               *)
(***************************************************************************)
\* the geometry and the material of the mesh at index j of the scene's group
ResourcesOfMesh(s, j) ==
  { [scene |-> s, index |-> j, kind |-> "geometry"],
    [scene |-> s, index |-> j, kind |-> "material"] }

\* C11: a dispose call removes from its scene the group of every scene that
\* had one, disposes the geometry and the material of every mesh each of
\* those groups held when dispose was called (for every tracked scene, not
\* for one of them), and then no scene has a group.
C11_DisposeReleasesEveryGroup ==
  [][lastCall'.op = "dispose" =>
       /\ \A s \in Scenes : sceneGroups[s] # NoGroup =>
            /\ s \in lastCall'.removed
            /\ sceneGroups[s] \notin sceneChildren'[s]
            /\ \A j \in 1..Len(groupChildren[sceneGroups[s]]) :
                 ResourcesOfMesh(s, j) \subseteq lastCall'.disposed
       /\ \A s \in Scenes : sceneGroups'[s] = NoGroup
    ]_vars

\* dispose was called while both scenes had a group holding a mesh, and
\* disposed the geometry and the material of both meshes
C11_Witness ==
  /\ lastCall.op = "dispose"
  /\ lastCall.removed = Scenes
  /\ \A s \in Scenes : ResourcesOfMesh(s, 1) \subseteq lastCall.disposed

\* C12: right after clearRegistry the registry and the exclusion set are
\* empty, whatever they held; a getAllCoordinates call made then returns the
\* empty sequence, and a registerCubes call made then gives every coordinate
\* of its batch a record, the coordinates excluded before the clear included.
C12_ClearRegistryEmptiesBoth ==
  /\ [](lastCall.op = "clearRegistry" =>
          cubeRegistry = << >> /\ excludedCoordinates = {})
  /\ [][(lastCall.op = "clearRegistry" /\ lastCall'.op = "getAllCoordinates")
          => lastCall'.retCoords = << >>]_vars
  /\ [][(lastCall.op = "clearRegistry" /\ lastCall'.op = "registerCubes") =>
          \A i \in 1..Len(lastCall'.coords) :
            LET key == KeyOf(lastCall'.coords[i]) IN
            /\ MapHas(cubeRegistry', key)
            /\ (key \in lastCall.before.excluded
                  => MapGet(cubeRegistry', key).position = lastCall'.coords[i])
       ]_vars

\* clearRegistry was called on a registry with records and with excluded keys
C12_Witness ==
  /\ lastCall.op = "clearRegistry"
  /\ lastCall.before.records > 0
  /\ lastCall.before.excluded # {}

\* the keys a batch of coordinates names
KeysNamed(coordinates) ==
  { KeyOf(coordinates[i]) : i \in 1..Len(coordinates) }

\* C13 as stated: a step that takes the registry from non-empty to empty is
\* a clearRegistry step.
C13_OnlyClearRegistryEmpties ==
  [][(cubeRegistry # << >> /\ cubeRegistry' = << >>)
       => lastCall'.op = "clearRegistry"]_vars

\* C13, amended: a step that takes the registry from non-empty to empty is a
\* clearRegistry step, a dispose step, or an unregisterCoordinates step whose
\* coordinates name the key of every record the registry held.
C13_EmptiedByClearDisposeOrUnregisterAll ==
  [][(cubeRegistry # << >> /\ cubeRegistry' = << >>) =>
       \/ lastCall'.op \in {"clearRegistry", "dispose"}
       \/ /\ lastCall'.op = "unregisterCoordinates"
          /\ MapKeys(cubeRegistry) \subseteq KeysNamed(lastCall'.coords)
    ]_vars

\* an unregisterCoordinates call deleted the last record of the registry
C13_Witness ==
  /\ lastCall.op = "unregisterCoordinates"
  /\ \E i \in 1..Len(lastCall.deleted) : lastCall.deleted[i]
  /\ cubeRegistry = << >>

\* C14: a setExcludedCoordinates call leaves exactly the keys of its
\* coordinates excluded: every named key is excluded and every key excluded
\* before and not named is dropped; a call whose coordinates name the keys
\* already excluded leaves the set as it is; and the call leaves the
\* registry unchanged, records under the named keys included.
C14_SetExcludedReplaces ==
  [][lastCall'.op = "setExcludedCoordinates" =>
       LET named == KeysNamed(lastCall'.coords) IN
       /\ excludedCoordinates' = named
       /\ \A k \in excludedCoordinates \ named : k \notin excludedCoordinates'
       /\ (excludedCoordinates = named
             => excludedCoordinates' = excludedCoordinates)
       /\ cubeRegistry' = cubeRegistry
       /\ \A k \in named : EntryOf(cubeRegistry', k) = EntryOf(cubeRegistry, k)
    ]_vars

\* setExcludedCoordinates named one coordinate that has a record, the
\* record is still there, and the other coordinate is not excluded
C14_Witness ==
  /\ lastCall.op = "setExcludedCoordinates"
  /\ Len(lastCall.coords) = 1
  /\ MapHas(cubeRegistry, KeyOf(lastCall.coords[1]))
  /\ excludedCoordinates = { KeyOf(lastCall.coords[1]) }
  /\ Len(cubeRegistry) = 2

\* C15: an unregisterCoordinates call returns normally and leaves in the
\* registry the records whose key it does not name, unchanged and in their
\* order, and no record under a named key; it leaves the exclusion set
\* unchanged; a named coordinate without a record (an excluded one, or one
\* named a second time) deletes nothing, and a call that names no key with
\* a record leaves the registry as it is.
C15_UnregisterRemovesExactlyNamed ==
  [][lastCall'.op = "unregisterCoordinates" =>
       LET named == KeysNamed(lastCall'.coords) IN
       /\ ~lastCall'.threw
       /\ cubeRegistry' = SelectSeq(cubeRegistry, LAMBDA e : e.key \notin named)
       /\ MapKeys(cubeRegistry') = MapKeys(cubeRegistry) \ named
       /\ \A k \in MapKeys(cubeRegistry') :
            MapGet(cubeRegistry', k) = MapGet(cubeRegistry, k)
       /\ excludedCoordinates' = excludedCoordinates
       /\ (named \cap MapKeys(cubeRegistry) = {} => cubeRegistry' = cubeRegistry)
       /\ Len(lastCall'.deleted) = Len(lastCall'.coords)
       /\ \A i \in 1..Len(lastCall'.coords) :
            lastCall'.deleted[i] <=>
              /\ MapHas(cubeRegistry, KeyOf(lastCall'.coords[i]))
              /\ \A j \in 1..(i - 1) : lastCall'.coords[j] # lastCall'.coords[i]
    ]_vars

\* unregisterCoordinates named an excluded coordinate twice: the first
\* naming deleted its record, the second found none, and the record of the
\* other coordinate is still there
C15_Witness ==
  /\ lastCall.op = "unregisterCoordinates"
  /\ lastCall.deleted = << TRUE, FALSE >>
  /\ KeyOf(lastCall.coords[2]) \in excludedCoordinates
  /\ Len(cubeRegistry) = 1

\* integer grid coordinates up to a bound, to compare their keys
MaxCoordinate == 11

GridCoordinates ==
  [x : -MaxCoordinate..MaxCoordinate, y : -MaxCoordinate..MaxCoordinate]

KeysDistinct ==
  Cardinality({ KeyOf(c) : c \in GridCoordinates })
    = Cardinality(GridCoordinates)

\* C16: two distinct integer coordinates never have the same key, and at
\* every state every key has at most one record, the position of a record
\* has the key the record is stored under, and the record is either a first
\* registration (room or hallway, with a caller's color) or the overlap
\* record (overlap, with the overlap color).
C16_OneRecordPerCoordinate ==
  /\ KeysDistinct
  /\ \A c \in Coords : CountKey(cubeRegistry, KeyOf(c)) <= 1
  /\ \A i \in 1..Len(cubeRegistry) :
       LET cubeInfo == cubeRegistry[i].value IN
       /\ KeyOf(cubeInfo.position) = cubeRegistry[i].key
       /\ \A j \in 1..Len(cubeRegistry) :
            cubeRegistry[j].value.position = cubeInfo.position => j = i
       /\ \/ cubeInfo.type \in Types /\ cubeInfo.color \in Colors
          \/ cubeInfo = OverlapInfo(cubeInfo.position)

\* both coordinates have a record, one of them the overlap record
C16_Witness ==
  /\ Len(cubeRegistry) = 2
  /\ \E i \in 1..2 : cubeRegistry[i].value.type = "overlap"
  /\ \E i \in 1..2 : cubeRegistry[i].value.type # "overlap"

\* C17: a getAllCoordinates call returns, in the order of the registry, the
\* position of every record and nothing else, so every key of the registry
\* (excluded keys and overlap records included) is the key of exactly one
\* returned position; the call leaves the registry and the exclusion set
\* unchanged.
C17_GetAllCoordinatesReturnsEveryRecord ==
  [][lastCall'.op = "getAllCoordinates" =>
       LET coordinates == lastCall'.retCoords IN
       /\ Len(coordinates) = Len(cubeRegistry)
       /\ \A i \in 1..Len(cubeRegistry) :
            coordinates[i] = cubeRegistry[i].value.position
       /\ \A k \in MapKeys(cubeRegistry) :
            Cardinality({ i \in 1..Len(coordinates) :
                            KeyOf(coordinates[i]) = k }) = 1
       /\ \A i \in 1..Len(coordinates) :
            MapHas(cubeRegistry, KeyOf(coordinates[i]))
       /\ cubeRegistry' = cubeRegistry
       /\ excludedCoordinates' = excludedCoordinates
    ]_vars

\* getAllCoordinates returned two positions, one of an excluded record and
\* one of an overlap record
C17_Witness ==
  /\ lastCall.op = "getAllCoordinates"
  /\ Len(lastCall.retCoords) = 2
  /\ \E i \in 1..2 : KeyOf(lastCall.retCoords[i]) \in excludedCoordinates
  /\ \E i \in 1..2 : IsOverlap(cubeRegistry, KeyOf(lastCall.retCoords[i]))

\* every record a registry can hold for a coordinate of the model
CubeInfos ==
  [position : Coords, color : Colors \cup {OverlapColor},
   type : Types \cup {"overlap"}]

\* two records of the same type get the same texture, whatever their colors
ColorIrrelevant ==
  \A a, b \in CubeInfos : \A cubeSize \in CubeSizes : \A yOffset \in YOffsets :
    a.type = b.type =>
      MeshOf(a, cubeSize, yOffset).cubeType = MeshOf(b, cubeSize, yOffset).cubeType

\* C18: right after any renderAllCubes call, the mesh made for a record has
\* the texture 'hallway-floor' when the record is an overlap or a hallway
\* and 'room-floor' when it is a room; the color of the record plays no part.
C18_TextureByTypeAlone ==
  /\ ColorIrrelevant
  /\ lastCall.op = "renderAllCubes" =>
       \A j \in 1..Len(groupChildren[sceneGroups[lastCall.scene]]) :
         \A i \in 1..Len(cubeRegistry) :
           LET mesh == groupChildren[sceneGroups[lastCall.scene]][j]
               cubeInfo == cubeRegistry[i].value
           IN MeshIsFor(mesh, cubeInfo) =>
                /\ cubeInfo.type \in {"overlap", "hallway"}
                     => mesh.cubeType = "hallway-floor"
                /\ cubeInfo.type = "room" => mesh.cubeType = "room-floor"

\* renderAllCubes made a mesh for an overlap record and a mesh for a room
\* record, whose colors differ
C18_Witness ==
  /\ lastCall.op = "renderAllCubes"
  /\ ~lastCall.threw
  /\ Len(groupChildren[lastCall.retGroup]) = 2
  /\ \E i, j \in 1..Len(cubeRegistry) :
       /\ cubeRegistry[i].value.type = "overlap"
       /\ cubeRegistry[j].value.type = "room"
       /\ cubeRegistry[i].value.color # cubeRegistry[j].value.color

\* C19: a renderAllCubes call that the texture provider fails leaves the
\* caller with the exception and no returned group, and leaves the registry
\* and the exclusion set as they were; the failure is not absorbed: a pass
\* that made fewer meshes than there are records to show has thrown.
C19_ProviderFaultPropagates ==
  /\ [](lastCall.op = "renderAllCubes" =>
          LET meshes == groupChildren[sceneGroups[lastCall.scene]] IN
          /\ lastCall.threw => lastCall.retGroup = NoGroup
          /\ lastCall.threw => Len(meshes) < Cardinality(VisibleRecords)
          /\ Len(meshes) < Cardinality(VisibleRecords) => lastCall.threw)
  /\ [][(lastCall'.op = "renderAllCubes" /\ lastCall'.threw) =>
          /\ cubeRegistry' = cubeRegistry
          /\ excludedCoordinates' = excludedCoordinates
       ]_vars

\* renderAllCubes threw while the registry held two records, one of them
\* excluded
C19_Witness ==
  /\ lastCall.op = "renderAllCubes"
  /\ lastCall.threw
  /\ Len(cubeRegistry) = 2
  /\ excludedCoordinates # {}

\* nothing registered, nothing excluded, no scene with a group
Empty ==
  /\ cubeRegistry = << >>
  /\ excludedCoordinates = {}
  /\ \A s \in Scenes : sceneGroups[s] = NoGroup /\ sceneChildren[s] = {}

\* C20: a dispose call made when nothing is registered, nothing is excluded
\* and no scene has a group (right after another dispose, or before any
\* renderAllCubes) returns normally, removes and disposes nothing and leaves
\* that state; a clearRegistry call on an empty registry returns normally,
\* leaves the registry and the exclusion set empty and the groups untouched.
C20_TeardownOfEmptyIsNoOp ==
  /\ [][(lastCall'.op = "dispose" /\ (Empty \/ lastCall.op = "dispose")) =>
          /\ Empty
          /\ ~lastCall'.threw
          /\ lastCall'.removed = {}
          /\ lastCall'.disposed = {}
          /\ Empty'
          /\ UNCHANGED << cubeRegistry, excludedCoordinates, sceneGroups,
                          sceneChildren >>
       ]_vars
  /\ [][(lastCall'.op = "clearRegistry" /\ cubeRegistry = << >>) =>
          /\ ~lastCall'.threw
          /\ cubeRegistry' = << >>
          /\ excludedCoordinates' = {}
          /\ UNCHANGED << sceneGroups, sceneChildren, groupChildren >>
       ]_vars

\* dispose was called when nothing was registered, nothing was excluded and
\* no scene had a group
C20_Witness ==
  /\ lastCall.op = "dispose"
  /\ lastCall.before = Found(<< >>, {})
  /\ lastCall.removed = {}
  /\ Empty

(***************************************************************************)
(* The rasterizer and the frame of the calls (claims C21 to C30).          *)
(***************************************************************************)
\* number of entries of a sequence of coordinates equal to (x, y)
CountPoint(coordinates, x, y) ==
  Cardinality({ j \in 1..Len(coordinates) :
                  coordinates[j].x = x /\ coordinates[j].y = y })

\* C21: getAreaCoordinates returns every integer point (x, y) with
\* startX <= x <= endX and startY <= y <= endY once and nothing else, x
\* ascending and, for equal x, y ascending: (endX - startX + 1) times
\* (endY - startY + 1) points when start <= end on both axes, and the empty
\* sequence, with no exception, when start > end on an axis.
C21_AreaIsInclusiveRectangle ==
  lastCall.op = "getAreaCoordinates" =>
    LET a == lastCall.args
        coordinates == lastCall.retCoords
    IN /\ ~lastCall.threw
       /\ \A x \in PathRange, y \in PathRange :
            CountPoint(coordinates, x, y) =
              IF a.startX <= x /\ x <= a.endX /\ a.startY <= y /\ y <= a.endY
                THEN 1 ELSE 0
       /\ \A j \in 1..Len(coordinates) :
            coordinates[j].x \in PathRange /\ coordinates[j].y \in PathRange
       /\ \A j, h \in 1..Len(coordinates) :
            j < h => \/ coordinates[j].x < coordinates[h].x
                     \/ /\ coordinates[j].x = coordinates[h].x
                        /\ coordinates[j].y < coordinates[h].y
       /\ (a.startX <= a.endX /\ a.startY <= a.endY) =>
            Len(coordinates) = (a.endX - a.startX + 1) * (a.endY - a.startY + 1)
       /\ (a.startX > a.endX \/ a.startY > a.endY) => coordinates = << >>
       /\ (a.startX = 0 /\ a.startY = 0 /\ a.endX = 2 /\ a.endY = 1) =>
            coordinates = << [x |-> 0, y |-> 0], [x |-> 0, y |-> 1],
                             [x |-> 1, y |-> 0], [x |-> 1, y |-> 1],
                             [x |-> 2, y |-> 0], [x |-> 2, y |-> 1] >>

\* getAreaCoordinates(0, 0, 2, 1) returned six points
C21_Witness ==
  /\ lastCall.op = "getAreaCoordinates"
  /\ lastCall.args.startX = 0 /\ lastCall.args.startY = 0
  /\ lastCall.args.endX = 2 /\ lastCall.args.endY = 1
  /\ Len(lastCall.retCoords) = 6

\* a returned call of getPathCoordinates on integer points
IsPathCall ==
  /\ lastCall.op = "getPathCoordinates"
  /\ lastCall.args.unit = "one"
  /\ ~lastCall.threw

\* an integer segment along a row or a column, start and end distinct
IsAxisAligned(a) ==
  \/ a.startY = a.endY /\ a.startX # a.endX
  \/ a.startX = a.endX /\ a.startY # a.endY

Sign(i) == IF i > 0 THEN 1 ELSE IF i < 0 THEN -1 ELSE 0

\* C22: getPathCoordinates with width 1 between two distinct integer points
\* of one row or one column returns the |d| + 1 cells from start to end,
\* both included, each once and in that order, whether end is above or
\* below start; for (0, 0, 3, 0, 1) the points (0,0), (1,0), (2,0), (3,0).
C22_AxisAlignedPathIsTheSegment ==
  (IsPathCall /\ lastCall.args.width = 1 /\ IsAxisAligned(lastCall.args)) =>
    LET a == lastCall.args
        dx == a.endX - a.startX
        dy == a.endY - a.startY
        coordinates == lastCall.retCoords
    IN /\ Len(coordinates) = Abs(dx) + Abs(dy) + 1
       /\ \A j \in 1..Len(coordinates) :
            coordinates[j] = [x |-> a.startX + Sign(dx) * (j - 1),
                              y |-> a.startY + Sign(dy) * (j - 1)]
       /\ coordinates[1] = [x |-> a.startX, y |-> a.startY]
       /\ coordinates[Len(coordinates)] = [x |-> a.endX, y |-> a.endY]
       /\ (a.startX = 0 /\ a.startY = 0 /\ a.endX = 3 /\ a.endY = 0) =>
            coordinates = << [x |-> 0, y |-> 0], [x |-> 1, y |-> 0],
                             [x |-> 2, y |-> 0], [x |-> 3, y |-> 0] >>

\* getPathCoordinates(3, 0, 0, 0, 1) returned four points, from (3,0) down
\* to (0,0)
C22_Witness ==
  /\ IsPathCall
  /\ lastCall.args.width = 1
  /\ lastCall.args.startX = 3 /\ lastCall.args.startY = 0
  /\ lastCall.args.endX = 0 /\ lastCall.args.endY = 0
  /\ Len(lastCall.retCoords) = 4
  /\ lastCall.retCoords[4] = [x |-> 0, y |-> 0]

\* C23: getPathCoordinates with start equal to end returns one point, the
\* start with each number rounded to the nearest integer (a half rounds
\* up), whatever the width, widths above 1 and widths of 0 or less
\* included; for (0, 0, 0, 0) the point (0, 0).
C23_EqualStartAndEndIsOnePoint ==
  ( /\ lastCall.op = "getPathCoordinates"
    /\ lastCall.args.startX = lastCall.args.endX
    /\ lastCall.args.startY = lastCall.args.endY ) =>
    LET a == lastCall.args
        coordinates == lastCall.retCoords
        den == IF a.unit = "half" THEN 2 ELSE 1
    IN /\ ~lastCall.threw
       /\ Len(coordinates) = 1
       /\ 2 * den * coordinates[1].x - den <= 2 * a.startX
       /\ 2 * a.startX < 2 * den * coordinates[1].x + den
       /\ 2 * den * coordinates[1].y - den <= 2 * a.startY
       /\ 2 * a.startY < 2 * den * coordinates[1].y + den
       /\ (a.unit = "one" /\ a.startX = 0 /\ a.startY = 0) =>
            coordinates = << [x |-> 0, y |-> 0] >>

\* getPathCoordinates(-0.5, 1.5, -0.5, 1.5, 3) returned the one point (0, 2)
C23_Witness ==
  /\ lastCall.op = "getPathCoordinates"
  /\ lastCall.args.unit = "half"
  /\ lastCall.args.startX = -1 /\ lastCall.args.startY = 3
  /\ lastCall.args.endX = -1 /\ lastCall.args.endY = 3
  /\ lastCall.args.width = 3
  /\ lastCall.retCoords = << [x |-> 0, y |-> 2] >>

\* C24 as stated: getPathCoordinates called with two distinct finite points
\* and a width of 1 or more returns a sequence that is not empty and whose
\* x and y are integers.
C24_DistinctPointsGiveIntegerPath ==
  ( /\ lastCall.op = "getPathCoordinates"
    /\ \/ lastCall.args.startX # lastCall.args.endX
       \/ lastCall.args.startY # lastCall.args.endY
    /\ lastCall.args.width >= 1 ) =>
    /\ ~lastCall.threw
    /\ lastCall.retCoords # << >>
    /\ \A j \in 1..Len(lastCall.retCoords) :
         lastCall.retCoords[j].x \in Int /\ lastCall.retCoords[j].y \in Int

\* the coordinates the call pushed before the filter
Generated ==
  LET a == lastCall.args IN
  IF a.startX = a.endX /\ a.startY = a.endY
    THEN SinglePoint(a.unit, a.startX, a.startY, a.width)
    ELSE GeneratedPath(a.unit, a.startX, a.startY, a.endX, a.endY, a.width)

\* the index of the first entry of a sequence equal to a point in it
FirstIndex(coordinates, point) ==
  CHOOSE j \in 1..Len(coordinates) :
    /\ coordinates[j] = point
    /\ \A h \in 1..(j - 1) : coordinates[h] # point

\* C25: the sequence getPathCoordinates returns has no two equal entries,
\* holds every pushed point and no other, and lists the points in the order
\* of their first occurrence among the pushed points.
C25_PathIsDeduplicatedInOrder ==
  (lastCall.op = "getPathCoordinates" /\ ~lastCall.threw) =>
    LET coordinates == lastCall.retCoords
        pushed == Generated
    IN /\ \A j, h \in 1..Len(coordinates) :
            j # h => coordinates[j] # coordinates[h]
       /\ \A j \in 1..Len(pushed) :
            \E h \in 1..Len(coordinates) : coordinates[h] = pushed[j]
       /\ \A h \in 1..Len(coordinates) :
            \E j \in 1..Len(pushed) : pushed[j] = coordinates[h]
       /\ \A j \in 1..(Len(coordinates) - 1) :
            FirstIndex(pushed, coordinates[j])
              < FirstIndex(pushed, coordinates[j + 1])

\* getPathCoordinates pushed a point, then another, then the first again,
\* and returned fewer points than it pushed
C25_Witness ==
  LET pushed == Generated IN
  /\ lastCall.op = "getPathCoordinates"
  /\ ~lastCall.threw
  /\ Len(lastCall.retCoords) < Len(pushed)
  /\ \E j, h, l \in 1..Len(pushed) :
       /\ j < h /\ h < l
       /\ pushed[j] = pushed[l]
       /\ pushed[j] # pushed[h]

\* the orders in which the coordinates of a batch can be passed
Reorderings(b) ==
  { [i \in 1..Len(b) |-> b[p[i]]] : p \in Permutations(1..Len(b)) }

\* C26: a registerCubes call whose coordinates are pairwise distinct gives
\* the same key-to-record mapping as the call with the same coordinates in
\* any other order, from the same registry and exclusion set, with the same
\* color and type.
C26_BatchOrderIrrelevant ==
  [][(/\ lastCall'.op = "registerCubes"
      /\ \A i, j \in 1..Len(lastCall'.coords) :
           i # j => lastCall'.coords[i] # lastCall'.coords[j]) =>
       \A color \in Colors, type \in Types :
         registerCubes(lastCall'.coords, color, type) =>
           \A reordered \in Reorderings(lastCall'.coords) :
             AsMapping(RegisterFrom(cubeRegistry, excludedCoordinates,
                                    reordered, color, type))
               = AsMapping(cubeRegistry')
    ]_vars

\* registerCubes was called with two distinct coordinates, one that had a
\* record (now the overlap record) and one that had none
C26_Witness ==
  /\ lastCall.op = "registerCubes"
  /\ Len(lastCall.coords) = 2
  /\ lastCall.coords[1] # lastCall.coords[2]
  /\ Len(cubeRegistry) = 2
  /\ IsOverlap(cubeRegistry, KeyOf(lastCall.coords[1]))
  /\ ~IsOverlap(cubeRegistry, KeyOf(lastCall.coords[2]))

\* C27: for a width of 1 or more, getPathCoordinates on an integer segment
\* along a row or a column returns, step after step from start to end, the
\* `width` cells displaced along the perpendicular (-dirY, dirX) by the
\* offsets w - floor(width / 2) for w = 0 .. width - 1, that is by
\* -floor(width / 2) .. width - 1 - floor(width / 2): (|d| + 1) * width
\* cells, all distinct.
C27_WidthOffsetsAroundSegment ==
  (IsPathCall /\ lastCall.args.width >= 1 /\ IsAxisAligned(lastCall.args)) =>
    LET a == lastCall.args
        dx == a.endX - a.startX
        dy == a.endY - a.startY
        width == a.width
        half == CHOOSE f \in 0..width : 2 * f <= width /\ width < 2 * f + 2
        offsets == (0 - half)..(width - 1 - half)
        steps == Abs(dx) + Abs(dy) + 1
        coordinates == lastCall.retCoords
        Cell(i, offset) ==
          [x |-> a.startX + Sign(dx) * i - Sign(dy) * offset,
           y |-> a.startY + Sign(dy) * i + Sign(dx) * offset]
    IN /\ Len(coordinates) = steps * width
       /\ \A i \in 0..(steps - 1), w \in 0..(width - 1) :
            /\ w - half \in offsets
            /\ coordinates[i * width + w + 1] = Cell(i, w - half)
       /\ \A i \in 0..(steps - 1), offset \in offsets :
            \E j \in (i * width + 1)..(i * width + width) :
              coordinates[j] = Cell(i, offset)
       /\ Cardinality({ coordinates[j] : j \in 1..Len(coordinates) })
            = steps * width

\* getPathCoordinates(0, 2, 0, 0, 2) returned six cells, in the columns 0
\* and -1
C27_Witness ==
  /\ IsPathCall
  /\ lastCall.args.startX = 0 /\ lastCall.args.startY = 2
  /\ lastCall.args.endX = 0 /\ lastCall.args.endY = 0
  /\ lastCall.args.width = 2
  /\ Len(lastCall.retCoords) = 6
  /\ { lastCall.retCoords[j].x : j \in 1..6 } = {-1, 0}

\* C28: right after a renderAllCubes call with cube size s and vertical
\* offset v, the mesh made for a record at grid (gx, gy) is at world
\* x = gx * s, y = v + s / 2, z = gy * s (twice these values in the half
\* units of the model) and casts and receives shadows: the grid y is on the
\* world z axis and the world y depends on v and s only.
C28_MeshPlacement ==
  lastCall.op = "renderAllCubes" =>
    LET s == lastCall.options.cubeSize
        v == lastCall.options.yOffset
        meshes == groupChildren[sceneGroups[lastCall.scene]]
    IN \A j \in 1..Len(meshes), i \in 1..Len(cubeRegistry) :
         LET gx == cubeRegistry[i].value.position.x
             gy == cubeRegistry[i].value.position.y
         IN MeshIsFor(meshes[j], cubeRegistry[i].value) =>
              /\ meshes[j].position.x2 = 2 * gx * s
              /\ meshes[j].position.y2 = 2 * v + s
              /\ meshes[j].position.z2 = 2 * gy * s
              /\ meshes[j].castShadow
              /\ meshes[j].receiveShadow

\* renderAllCubes with cube size 2 and vertical offset -1 made the mesh of
\* the record at grid (-1, 1)
C28_Witness ==
  /\ lastCall.op = "renderAllCubes"
  /\ lastCall.options = [cubeSize |-> 2, yOffset |-> -1]
  /\ \E j \in 1..Len(groupChildren[lastCall.retGroup]) :
       groupChildren[lastCall.retGroup][j].position
         = [x2 |-> -4, y2 |-> 0, z2 |-> 4]

\* C29: a renderAllCubes call, for any scene and any cube size, complete or
\* cut short by the texture provider, leaves the registry and the exclusion
\* set equal to what they were before the call.
C29_RenderLeavesRegistryAndExclusions ==
  [][lastCall'.op = "renderAllCubes" =>
       /\ cubeRegistry' = cubeRegistry
       /\ excludedCoordinates' = excludedCoordinates
    ]_vars

\* renderAllCubes returned for the second scene, with cube size 2, while
\* the registry held a record and its key was excluded
C29_Witness ==
  /\ lastCall.op = "renderAllCubes"
  /\ ~lastCall.threw
  /\ lastCall.scene = "sceneB"
  /\ lastCall.options.cubeSize = 2
  /\ cubeRegistry # << >>
  /\ \E i \in 1..Len(cubeRegistry) : cubeRegistry[i].key \in excludedCoordinates

\* C30: the meshes of the group of a scene change only in a renderAllCubes
\* call for that scene: registerCubes, unregisterCoordinates,
\* setExcludedCoordinates, clearRegistry, getAllCoordinates and a
\* renderAllCubes call for another scene leave the scene its group, attached
\* and with the same meshes; so a group can hold the mesh of a coordinate
\* that has no record any more or is excluded now.
C30_GroupChangesOnlyInItsRender ==
  [][\A s \in Scenes :
       LET sceneGroup == sceneGroups[s] IN
       sceneGroup # NoGroup =>
         /\ ( \/ lastCall'.op \in {"registerCubes", "unregisterCoordinates",
                                   "setExcludedCoordinates", "clearRegistry",
                                   "getAllCoordinates"}
              \/ lastCall'.op = "renderAllCubes" /\ lastCall'.scene # s )
            => /\ sceneGroups'[s] = sceneGroup
               /\ sceneGroup \in sceneChildren'[s]
               /\ groupChildren'[sceneGroup] = groupChildren[sceneGroup]
         /\ ( /\ sceneGroups'[s] = sceneGroup
              /\ groupChildren'[sceneGroup] # groupChildren[sceneGroup] )
            => lastCall'.op = "renderAllCubes" /\ lastCall'.scene = s
    ]_vars

\* after clearRegistry the group of the first scene still holds a mesh,
\* while the registry is empty
C30_Witness ==
  /\ lastCall.op = "clearRegistry"
  /\ cubeRegistry = << >>
  /\ sceneGroups["sceneA"] # NoGroup
  /\ groupChildren[sceneGroups["sceneA"]] # << >>

(***************************************************************************)
(* C31.  No drawable resource outlives dispose(): after any sequence of    *)
(* renderAllCubes calls followed by dispose(), every geometry and every    *)
(* material that any of those calls created has been released - the       *)
(* ledger of the resources that no group holds and nobody disposed is      *)
(* empty when dispose has returned.                                        *)
(***************************************************************************)
C31_NothingOutlivesDispose ==
  (lastCall.op = "dispose" /\ leaked # Undefined) => leaked[1] = {}

\* no excluded key has a record
ExcludedHaveNoRecord ==
  \A k \in excludedCoordinates : ~MapHas(cubeRegistry, k)

(***************************************************************************)
(* C32.  When the exclusions are configured before the excluded            *)
(* coordinates are registered, the registry and the Exclusion Set stay     *)
(* disjoint: from a state where no excluded key has a record, a step of    *)
(* registerCubes, unregisterCoordinates or renderAllCubes - any step but   *)
(* a new setExcludedCoordinates - leads to a state where no excluded key   *)
(* has a record.                                                           *)
(***************************************************************************)
C32_DisjointUntilExclusionsChange ==
  [][(ExcludedHaveNoRecord /\ lastCall'.op # "setExcludedCoordinates")
       => ExcludedHaveNoRecord']_vars

\* exclusions are set, a registerCubes that named an excluded coordinate
\* and a free one has run, and the registry holds the free one only
C32_Witness ==
  /\ lastCall.op = "registerCubes"
  /\ excludedCoordinates # {}
  /\ \E i \in 1..Len(lastCall.coords) :
       KeyOf(lastCall.coords[i]) \in excludedCoordinates
  /\ \E i \in 1..Len(lastCall.coords) :
       MapHas(cubeRegistry, KeyOf(lastCall.coords[i]))
  /\ ExcludedHaveNoRecord

(***************************************************************************)
(* C33.  For integer start and end points and any width >= 1, the sequence *)
(* getPathCoordinates returns contains the start cell and the end cell.    *)
(***************************************************************************)
C33_PathContainsStartAndEnd ==
  (IsPathCall /\ lastCall.args.width >= 1) =>
    LET a == lastCall.args
        coordinates == lastCall.retCoords
    IN  /\ CountPoint(coordinates, a.startX, a.startY) >= 1
        /\ CountPoint(coordinates, a.endX, a.endY) >= 1

\* getPathCoordinates(0, 0, 2, 3, 2), a slanted segment with an even width,
\* returned a sequence that holds (0, 0) and (2, 3) among other cells
C33_Witness ==
  /\ IsPathCall
  /\ lastCall.args.width = 2
  /\ lastCall.args.startX = 0 /\ lastCall.args.startY = 0
  /\ lastCall.args.endX = 2 /\ lastCall.args.endY = 3
  /\ Len(lastCall.retCoords) > 2
  /\ CountPoint(lastCall.retCoords, 0, 0) = 1
  /\ CountPoint(lastCall.retCoords, 2, 3) = 1

\* the headers that carry a token: a second piece, not empty, after the
\* first space
HeadersWithToken ==
  { Some(<< "B", " ", "g" >>), Some(<< "B", " ", "h" >>),
    Some(<< "B", " ", "x" >>), Some(<< "B", " ", "g", " ", "x" >>) }

\* the statuses of the responses a request got
StatusesOf(q) == [i \in 1..Len(q.responses) |-> q.responses[i].status]

(***************************************************************************)
(* C34.  authenticateToken lets a request through only after successful    *)
(* token verification: next() is called (once) only when the header        *)
(* carries a token, the Admin SDK is initialized and verifyIdToken has     *)
(* resolved, and req.user is then the decoded token; in every other case   *)
(* the request gets exactly one response, an error, and next() is not      *)
(* called: 401 when the token is missing, initialized or not, 503 when     *)
(* the SDK is not initialized, 403 when verification rejects.  No          *)
(* response says authenticated: true for a request that was not verified,  *)
(* and nothing is answered while verification is pending.                  *)
(***************************************************************************)
C34_NextOnlyAfterVerification ==
  \A r \in Requests :
    LET q == requests[r] IN
    /\ q.nexts > 0 =>
         /\ q.nexts = 1
         /\ q.header \in HeadersWithToken
         /\ adminApps > 0
         /\ q.verify = "resolved"
         /\ q.token[1] \in DOMAIN DecodedTokens
         /\ q.user = Some(DecodedTokens[q.token[1]])
         /\ q.responses = << [status |-> 200, authenticated |-> TRUE,
                              uid |-> Some(q.user[1].uid)] >>
    /\ (q.pc = "done" /\ q.nexts = 0) =>
         /\ StatusesOf(q) =
              << IF q.header \notin HeadersWithToken THEN 401
                 ELSE IF adminApps = 0 THEN 503
                 ELSE 403 >>
         /\ q.responses[1].status = 403 => q.verify = "rejected"
         /\ q.user = Undefined
    /\ \A i \in 1..Len(q.responses) :
         q.responses[i].authenticated => (q.verify = "resolved" /\ q.nexts = 1)
    /\ q.pc # "done" => (q.nexts = 0 /\ q.responses = << >>)

\* one request with a token Firebase signed went through and was answered
\* authenticated: true, another with a token it did not sign got 403
C34_Witness ==
  /\ requests["req1"].nexts = 1
  /\ requests["req1"].header = Some(<< "B", " ", "g" >>)
  /\ requests["req1"].responses[1].authenticated
  /\ requests["req2"].header = Some(<< "B", " ", "x" >>)
  /\ StatusesOf(requests["req2"]) = << 403 >>

\* the documents of the collection with the e-mail
RecordsOf(email) == SelectSeq(admins, LAMBDA d : d.email = email)

(***************************************************************************)
(* C35.  The add-admin script keeps at most one admin record per e-mail:   *)
(* whatever runs have been made for an e-mail, two runs whose find and     *)
(* insert steps interleave included, the collection holds at most one      *)
(* record for it, exactly one once a run for it has ended; and a run that  *)
(* finds a record inserts nothing and leaves the collection as it is.      *)
(***************************************************************************)
C35_OneAdminRecordPerEmail ==
  /\ \A email \in Emails : Len(RecordsOf(email)) <= 1
  /\ \A run \in Runs :
       runs[run].pc = "close" => Len(RecordsOf(runs[run].adminEmail)) = 1
  /\ \A run \in Runs :
       runs[run].existingAdmin # Undefined =>
         /\ runs[run].pc # "insertOne"
         /\ runs[run].existingAdmin[1] = Head(RecordsOf(runs[run].adminEmail))

\* the sprite players: those with an animation state
SpritePlayers == { p \in Players : spriteAnimations[p] # Undefined }

\* the frame is 1 or 2 and the material shows the texture of the frame
FrameIsShown ==
  \A p \in SpritePlayers :
    /\ spriteAnimations[p][1].currentFrame \in {1, 2}
    /\ spriteMaterialMap[p] = Some(spriteAnimations[p][1].currentFrame)

\* what a call updateSpriteAnimation(p, isMoving) does
UpdatesAsClaimed(p, isMoving) ==
  IF p \notin SpritePlayers THEN UNCHANGED spriteVars
  ELSE LET before == spriteAnimations[p][1]
           after == spriteAnimations'[p][1]
           late == (now - before.lastFrameTime) * ClockUnit > 500
       IN  /\ spriteAnimations'[p] # Undefined
           /\ after.currentFrame \in {1, 2}
           /\ ~isMoving => after.currentFrame = 1
           /\ isMoving =>
                IF late
                THEN /\ after.currentFrame # before.currentFrame
                     /\ after.lastFrameTime = now
                ELSE /\ after.currentFrame = before.currentFrame
                     /\ after.lastFrameTime = before.lastFrameTime
           /\ spriteMaterialMap'[p] = Some(after.currentFrame)
           /\ \A other \in Players \ {p} :
                /\ spriteAnimations'[other] = spriteAnimations[other]
                /\ spriteMaterialMap'[other] = spriteMaterialMap[other]

(***************************************************************************)
(* C36.  For every sprite player, over any sequence of                     *)
(* updateSpriteAnimation calls: currentFrame is always 1 or 2 and the      *)
(* material shows the texture of that frame; after a call with isMoving    *)
(* false the frame is 1; in a call with isMoving true the frame toggles    *)
(* when, and only when, the call is made more than 500 ms after the last   *)
(* recorded frame change, and lastFrameTime is then the current time; a    *)
(* call for an unknown player changes nothing.                             *)
(***************************************************************************)
C36_TwoFrameAnimation ==
  /\ []FrameIsShown
  /\ [][\A p \in Players, isMoving \in BOOLEAN :
          updateSpriteAnimation(p, isMoving) => UpdatesAsClaimed(p, isMoving)]_vars

\* p1 is moving and an update made when the clock showed 3 (750 ms) took its
\* frame from 1 to 2, the only way to frame 2; the material shows frame 2;
\* p2 is unknown
C36_Witness ==
  /\ spriteAnimations["p1"] =
       Some([currentFrame |-> 2, lastFrameTime |-> 3, isMoving |-> TRUE])
  /\ spriteMaterialMap["p1"] = Some(2)
  /\ spriteAnimations["p2"] = Undefined

====
